---- MODULE Spec2Model ----
(***************************************************************************)
(* Sandbox reconciliation (SandboxDestroyAction.run), the runner adapters  *)
(* behind it, and the lock-gated suspension sweeps of OrganizationService. *)
(***************************************************************************)
EXTENDS Integers, Sequences, FiniteSets, TLC

VARIABLES
    sbState,        \* the sandbox's persisted state (sandbox.state in the repository)
    runner,         \* the runner record runnerService.findOne returns
    inv,            \* per invocation slot: position in run() and what it saw and did
    slots,          \* the invocation slots in use (1: sequential ticks, 2: overlapping)
    runCount,       \* number of invocations of run() started so far (saturating)
    destroyedCount, \* number of persisted transitions into DESTROYED (saturating)
    now,            \* wall clock, seconds
    lockStore,      \* the shared key-value store: key -> lease (held, expiry instant, who set it)
    inst,           \* per control-plane instance: position in a sweep and its run record
    job,            \* the sweep under study (its name is its lock key)
    fired,          \* per instance: its cron timer already fired in the current interval
    bodyRuns,       \* the instances that executed the sweep body in the current interval
    moduleRef,      \* the value of RunnerAdapterFactory's moduleRef field when create runs
    db,             \* the rows the sweeps read: organizations, sandboxes, snapshots, snapshot runners
    lastCheck,      \* the last call of assertOrganizationIsNotSuspended: organization, instant, outcome
    req,            \* one request through the legacy adapter's HTTP client: attempts and outcome
    overran,        \* some sweep run was still in its body when the lease it set expired
    call,           \* the last call of an adapter method: its input and what the caller got
    logs,           \* one GetSnapshotLogs request with follow on the runner: loop, reader, stream
    orgSvc,         \* OrganizationService's organization rows and its create requests in progress
    proc            \* the runner process: its servers, main, the shutdown goroutine, the exit

destroyVars == <<sbState, runner, inv, slots, runCount, destroyedCount, moduleRef>>
sweepVars == <<now, lockStore, inst, job, fired, bodyRuns, overran>>
dataVars == <<db, lastCheck>>
clientVars == <<req, call, logs, orgSvc, proc>>
vars == <<sbState, runner, inv, slots, runCount, destroyedCount, moduleRef,
          now, lockStore, inst, job, fired, bodyRuns, db, lastCheck, req,
          overran, call, logs, orgSvc, proc>>

(***************************************************************************)
(* Bounds                                                                  *)
(***************************************************************************)
MaxRuns == 3
MaxDestroyedCount == 2
MaxTime == 660
TimeStep == 30
MaxItems == 2

Min(a, b) == IF a < b THEN a ELSE b

(***************************************************************************)
(* Enumerations                                                            *)
(***************************************************************************)
\* the canonical states an adapter's info can return (convertSandboxState)
RunnerReportedStates ==
    {"CREATING", "RESTORING", "DESTROYED", "DESTROYING", "STARTED", "STOPPED",
     "STARTING", "STOPPING", "ERROR", "PULLING_SNAPSHOT", "UNKNOWN"}

\* SandboxState as the control plane persists it
SandboxStates == RunnerReportedStates \cup {"ARCHIVED", "ARCHIVING", "BUILD_FAILED"}

RunnerStates == {"READY", "UNRESPONSIVE"}
RunnerVersions == {"0", "1", "2"}
ApiUrlSchemes == {"grpc", "grpcs", "http"}

SYNC_AGAIN == "SYNC_AGAIN"
DONT_SYNC_AGAIN == "DONT_SYNC_AGAIN"

(***************************************************************************)
(* Runner adapters: how a failed runner call reaches the caller            *)
(***************************************************************************)
\* a runner call fails because the runner has no record of the sandbox, or for
\* any other reason
CallFailures == {"NOT_FOUND", "FAILED"}

HttpStatus(failure) == IF failure = "NOT_FOUND" THEN 404 ELSE 500

NoResponse == [present |-> FALSE, status |-> 0]

\* the error the HTTP client raises for a failed response: it carries the response
AxiosError(failure) ==
    [name |-> "AxiosError",
     response |-> [present |-> TRUE, status |-> HttpStatus(failure)],
     failure |-> failure]

\* the response interceptor of the legacy adapter: every failed response is
\* rethrown as new Error(String(errorMessage)), which carries no response
LegacyInterceptor(error) ==
    [name |-> "Error", response |-> NoResponse, failure |-> error.failure]

\* the current adapter: firstValueFrom rejects with the RPC status error,
\* which has a code and details but no response field
V1Reject(failure) ==
    [name |-> "Error", response |-> NoResponse, failure |-> failure]

\* the error a failed call of the adapter raises to its caller
AdapterError(adapter, failure) ==
    IF adapter = "RunnerAdapterLegacy"
      THEN LegacyInterceptor(AxiosError(failure))
      ELSE V1Reject(failure)

\* an init of the current adapter that accepts every apiUrl
V1InitAcceptsAll(scheme) == "OK"

\* RunnerAdapterV1.init: the apiUrl scheme selects the channel credentials
V1Init(scheme) ==
    IF scheme \in {"grpc", "grpcs"} THEN "OK" ELSE "InvalidApiUrl"

\* RunnerAdapterLegacy.init never fails on the runner record
LegacyInit(scheme) == "OK"

\* the factory's moduleRef field is declared but assigned nowhere in the class:
\* it holds a ModuleRef only if something outside the class sets it
ModuleRefValues == {"ModuleRef", "undefined"}

NoAdapter(error) ==
    [adapter |-> "NONE", error |-> error, created |-> "NONE", init |-> "NOT_CALLED"]

\* one case of the switch: await this.moduleRef.create(class), await
\* adapter.init(runner), return adapter
CreateAndInit(class, initResult) ==
    IF moduleRef = "undefined" THEN NoAdapter("TypeError")
    ELSE IF initResult = "OK"
      THEN [adapter |-> class, error |-> "NONE", created |-> class, init |-> "OK"]
    ELSE [adapter |-> "NONE", error |-> initResult, created |-> class, init |-> initResult]

\* RunnerAdapterFactory.create: the adapter handed to the caller or the error
\* raised, the class instantiated, and how its init ended
FactoryCreate(r) ==
    IF r.version = "0" THEN CreateAndInit("RunnerAdapterLegacy", LegacyInit(r.scheme))
    ELSE IF r.version = "1" THEN CreateAndInit("RunnerAdapterV1", V1Init(r.scheme))
    ELSE NoAdapter("UnsupportedVersion")

(***************************************************************************)
(* SandboxDestroyAction.run                                                *)
(***************************************************************************)
Invocations == {1, 2}

IdleInvocation ==
    [pc |-> "idle", copy |-> "NONE", adapter |-> "NONE", created |-> "NONE",
     init |-> "NOT_CALLED", lookedUp |-> FALSE, runNo |-> 0,
     infoAns |-> "NOT_CALLED", destroyAns |-> "NOT_CALLED", removeAns |-> "NOT_CALLED",
     ret |-> "NONE", raised |-> "NONE", wrote |-> "NONE", before |-> "NONE",
     prevWrote |-> "NONE"]

\* catch of the DESTROYING case: if (!e.response || e.response.status !== 404) throw e
CatchDestroying(e) ==
    IF (~e.response.present) \/ e.response.status # 404 THEN "AdapterError" ELSE "NONE"

\* catch of the default case: if (e.response.status !== 404) throw e
\* (reading status of an undefined response raises a TypeError)
CatchDefault(e) ==
    IF ~e.response.present THEN "TypeError"
    ELSE IF e.response.status # 404 THEN "AdapterError"
    ELSE "NONE"

Catch(copy, e) == IF copy = "DESTROYING" THEN CatchDestroying(e) ELSE CatchDefault(e)

\* the state the branch persists when it gets to its updateSandboxState call
TargetState(copy) == IF copy = "DESTROYING" THEN "DESTROYED" ELSE "DESTROYING"

\* the runner states on which the DESTROYING case calls removeDestroyed
NeedsRemoveDestroyed(st) == st = "DESTROYED" \/ st = "ERROR"

\* the default case returns early when the runner already reports DESTROYED
AlreadyDestroyed(st) == st = "DESTROYED"

Returned(r, signal) == [r EXCEPT !.pc = "done", !.ret = signal]
Raised(r, err) == [r EXCEPT !.pc = "done", !.raised = err]

\* the driver hands a copy of the sandbox row to run()
Invoke(p) ==
    /\ p \in slots
    /\ inv[p].pc \in {"idle", "done"}
    /\ inv' = [inv EXCEPT ![p] = [IdleInvocation EXCEPT
                  !.pc = "entered", !.copy = sbState, !.prevWrote = inv[p].wrote,
                  !.runNo = Min(runCount + 1, MaxRuns)]]
    /\ runCount' = Min(runCount + 1, MaxRuns)
    /\ UNCHANGED <<sbState, runner, slots, destroyedCount>>
    /\ UNCHANGED <<moduleRef, sweepVars, dataVars, clientVars>>

\* updateSandboxState(sandbox.id, state): the row is saved with the new state
UpdateSandboxState(st) ==
    /\ sbState' = st
    /\ destroyedCount' =
         IF st = "DESTROYED" /\ sbState # "DESTROYED"
           THEN Min(destroyedCount + 1, MaxDestroyedCount)
           ELSE destroyedCount

\* a run that takes the ARCHIVED shortcut for no sandbox
IsArchivedNever(copy) == FALSE

\* if (sandbox.state === SandboxState.ARCHIVED)
IsArchived(copy) == copy = "ARCHIVED"

\* a run that takes every runner for ready
RunnerReadyAlways(r) == TRUE

\* the negation of: if (runner.state !== RunnerState.READY) return DONT_SYNC_AGAIN
RunnerReady(r) == r.state = "READY"

\* a switch whose cases start with their mutating call
SwitchEntryMutates(copy) == IF copy = "DESTROYING" THEN "removeDestroyed" ELSE "destroy"

\* the first adapter call of the DESTROYING case and of the default case
SwitchEntry(copy) == "info"

\* what runnerService.findOne(sandbox.runnerId) yields for a sandbox whose
\* runnerId is null or names no runner record: null, and line 325 reads
\* runner.state of it
NoRunner == [state |-> "NONE", version |-> "NONE", scheme |-> "NONE"]

\* lines 319-334: the ARCHIVED shortcut, the runner lookup, the adapter, the switch
Enter(p) ==
    /\ inv[p].pc = "entered"
    /\ LET r == inv[p]
           found == [r EXCEPT !.lookedUp = TRUE]
           f == FactoryCreate(runner)
           made == [found EXCEPT !.adapter = f.adapter, !.created = f.created,
                                 !.init = f.init]
       IN
       IF IsArchived(r.copy)
         THEN /\ UpdateSandboxState("DESTROYED")
              /\ inv' = [inv EXCEPT ![p] =
                    Returned([r EXCEPT !.wrote = "DESTROYED", !.before = sbState],
                             DONT_SYNC_AGAIN)]
       ELSE IF runner = NoRunner
         THEN /\ inv' = [inv EXCEPT ![p] = Raised(found, "TypeError")]
              /\ UNCHANGED <<sbState, destroyedCount>>
       ELSE IF ~RunnerReady(runner)
         THEN /\ inv' = [inv EXCEPT ![p] = Returned(found, DONT_SYNC_AGAIN)]
              /\ UNCHANGED <<sbState, destroyedCount>>
       ELSE IF f.error # "NONE"
         THEN /\ inv' = [inv EXCEPT ![p] = Raised(made, f.error)]
              /\ UNCHANGED <<sbState, destroyedCount>>
       ELSE IF r.copy = "DESTROYED"
         THEN /\ inv' = [inv EXCEPT ![p] = Returned(made, DONT_SYNC_AGAIN)]
              /\ UNCHANGED <<sbState, destroyedCount>>
       ELSE /\ inv' = [inv EXCEPT ![p] = [made EXCEPT !.pc = SwitchEntry(r.copy)]]
            /\ UNCHANGED <<sbState, destroyedCount>>
    /\ UNCHANGED <<runner, slots, runCount>>
    /\ UNCHANGED <<moduleRef, sweepVars, dataVars, clientVars>>

\* AfterInfo with the early return of the default case asking for a re-run
AfterInfoSyncAgain(r, st) ==
    IF r.copy = "DESTROYING"
      THEN (IF NeedsRemoveDestroyed(st) THEN [r EXCEPT !.pc = "removeDestroyed"]
                                        ELSE [r EXCEPT !.pc = "update"])
      ELSE (IF AlreadyDestroyed(st) THEN Returned(r, SYNC_AGAIN)
                                    ELSE [r EXCEPT !.pc = "destroy"])

\* what follows a successful info, per branch
AfterInfo(r, st) ==
    IF r.copy = "DESTROYING"
      THEN (IF NeedsRemoveDestroyed(st) THEN [r EXCEPT !.pc = "removeDestroyed"]
                                        ELSE [r EXCEPT !.pc = "update"])
      ELSE (IF AlreadyDestroyed(st) THEN Returned(r, DONT_SYNC_AGAIN)
                                    ELSE [r EXCEPT !.pc = "destroy"])

\* what follows a failed adapter call: the branch's catch decides
AfterFailure(r, failure) ==
    LET out == Catch(r.copy, AdapterError(r.adapter, failure)) IN
    IF out = "NONE" THEN [r EXCEPT !.pc = "update"] ELSE Raised(r, out)

\* runnerAdapter.info(sandbox.id)
Info(p, ans) ==
    /\ inv[p].pc = "info"
    /\ LET r == [inv[p] EXCEPT !.infoAns = ans] IN
       inv' = [inv EXCEPT ![p] =
                 IF ans \in CallFailures THEN AfterFailure(r, ans) ELSE AfterInfo(r, ans)]
    /\ UNCHANGED <<sbState, runner, slots, runCount, destroyedCount>>
    /\ UNCHANGED <<moduleRef, sweepVars, dataVars, clientVars>>

\* runnerAdapter.destroy(sandbox.id)
Destroy(p, ans) ==
    /\ inv[p].pc = "destroy"
    /\ LET r == [inv[p] EXCEPT !.destroyAns = ans] IN
       inv' = [inv EXCEPT ![p] =
                 IF ans \in CallFailures THEN AfterFailure(r, ans) ELSE [r EXCEPT !.pc = "update"]]
    /\ UNCHANGED <<sbState, runner, slots, runCount, destroyedCount>>
    /\ UNCHANGED <<moduleRef, sweepVars, dataVars, clientVars>>

\* runnerAdapter.removeDestroyed(sandbox.id)
RemoveDestroyed(p, ans) ==
    /\ inv[p].pc = "removeDestroyed"
    /\ LET r == [inv[p] EXCEPT !.removeAns = ans] IN
       inv' = [inv EXCEPT ![p] =
                 IF ans \in CallFailures THEN AfterFailure(r, ans) ELSE [r EXCEPT !.pc = "update"]]
    /\ UNCHANGED <<sbState, runner, slots, runCount, destroyedCount>>
    /\ UNCHANGED <<moduleRef, sweepVars, dataVars, clientVars>>

\* lines 348-349 and 365-366: persist the branch's state and ask to be re-run
Update(p) ==
    /\ inv[p].pc = "update"
    /\ UpdateSandboxState(TargetState(inv[p].copy))
    /\ inv' = [inv EXCEPT ![p] =
          Returned([inv[p] EXCEPT !.wrote = TargetState(inv[p].copy), !.before = sbState],
                   SYNC_AGAIN)]
    /\ UNCHANGED <<runner, slots, runCount>>
    /\ UNCHANGED <<moduleRef, sweepVars, dataVars, clientVars>>

(***************************************************************************)
(* Distributed lock and the suspension sweeps of OrganizationService       *)
(***************************************************************************)
Instances == {1, 2}

\* the two cron jobs; each uses its name as its lock key
StopSweep == "stop-suspended-organization-sandboxes"
RemoveSweep == "remove-suspended-organization-snapshot-runners"
Jobs == {StopSweep, RemoveSweep}

\* CronExpression.EVERY_10_MINUTES, in seconds
CronInterval == 600
\* the ttl both sweeps pass to redisLockProvider.lock(lockKey, 60)
LockTtl == 60

Interval(t) == t \div CronInterval

FreeKey == [held |-> FALSE, expires |-> 0, setBy |-> 0]

\* a key is live while it is set and its expiry has not been reached
KeyLive(store, key, t) == store[key].held /\ t < store[key].expires

\* RedisLockProvider.lock(key, ttl): set the key only if absent, with expiry;
\* the result says whether the caller obtained the lease
LockAcquired(store, key, t) == ~KeyLive(store, key, t)

LockSet(store, key, ttl, t, who) ==
    [store EXCEPT ![key] = [held |-> TRUE, expires |-> t + ttl, setBy |-> who]]

\* a release that leaves the key in the store
RedisDelKeepsKey(store, key) == store

\* this.redis.del(lockKey): the key is deleted, whoever set it
RedisDel(store, key) == [store EXCEPT ![key] = FreeKey]

\* the store drops a key when its expiry is reached
Expire(store, t) ==
    [k \in Jobs |-> IF store[k].held /\ t >= store[k].expires THEN FreeKey ELSE store[k]]

\* a sweep that goes on whatever lock() returned
SweepProceedsAlways(acquired) == TRUE

\* a sweep that goes on exactly when lock() returned false
SweepProceedsOnFailure(acquired) == ~acquired

\* if (!(await this.redisLockProvider.lock(lockKey, 60))) return
SweepProceeds(acquired) == acquired

(***************************************************************************)
(* The rows the sweeps read and the queries they run                       *)
(***************************************************************************)
Orgs == {"o1", "o2"}
Sandboxes == {"s1", "s2"}
Snapshots == {"img1", "img2"}
SnapshotRunners == {"sr1", "sr2"}

\* a nullable timestamp column
NullDate == [isNull |-> TRUE, t |-> 0]
DateAt(t) == [isNull |-> FALSE, t |-> t]

\* 1000 * 60 * 60 * 24 milliseconds, in seconds
Day == 86400
\* new Date(Date.now() - 1 * 1000 * 60 * 60 * 24)
SuspendedBeforeDays == 1
\* new Date(Date.now() - 7 * 1000 * 60 * 60 * 24)
SuspendedAfterDays == 7

SuspendedBefore(t) == t - SuspendedBeforeDays * Day
SuspendedAfter(t) == t - SuspendedAfterDays * Day

\* the suspendedAt entry of the where-object: each of the two spreads writes
\* the key suspendedAt, and the later spread replaces the earlier one
SuspendedAtFilter(suspendedBefore, suspendedAfter) ==
    (("suspendedAt" :> [op |-> "MoreThan", arg |-> suspendedAfter])
      @@ ("suspendedAt" :> [op |-> "LessThan", arg |-> suspendedBefore]))["suspendedAt"]

\* LessThan / MoreThan on a nullable column: a null never compares
Holds(filter, column) ==
    /\ ~column.isNull
    /\ IF filter.op = "LessThan" THEN column.t < filter.arg ELSE column.t > filter.arg

\* suspendedUntil: Or(IsNull(), MoreThan(new Date()))
UntilMatches(until, t) == until.isNull \/ until.t > t

\* the where-object of findSuspended applied to one row
OrganizationMatches(org, suspendedBefore, suspendedAfter, t) ==
    /\ org.suspended
    /\ UntilMatches(org.suspendedUntil, t)
    /\ Holds(SuspendedAtFilter(suspendedBefore, suspendedAfter), org.suspendedAt)

\* take: take || 100
FindTake == 100

\* findSuspended(suspendedBefore, suspendedAfter) run at instant t: the result
\* sets it can return (all matching rows, or any FindTake of them)
findSuspended(organizations, suspendedBefore, suspendedAfter, t) ==
    LET matching == {o \in Orgs :
                       OrganizationMatches(organizations[o], suspendedBefore, suspendedAfter, t)}
    IN {S \in SUBSET matching : Cardinality(S) = Min(Cardinality(matching), FindTake)}

\* a check that rejects a suspension whose suspendedUntil has passed
assertRejectsLapsed(org, t) ==
    IF ~org.suspended THEN "OK"
    ELSE IF (IF ~org.suspendedUntil.isNull THEN org.suspendedUntil.t < t ELSE TRUE)
      THEN "Forbidden" ELSE "OK"

\* assertOrganizationIsNotSuspended(organization) called at instant t
assertOrganizationIsNotSuspended(org, t) ==
    IF ~org.suspended THEN "OK"
    ELSE IF (IF ~org.suspendedUntil.isNull THEN org.suspendedUntil.t > t ELSE TRUE)
      THEN "Forbidden" ELSE "OK"

\* a sandbox query without the state condition
SandboxMatchesAnyState(sb, orgIds) ==
    /\ sb.organizationId \in orgIds
    /\ sb.desiredState = "STARTED"

\* organizationId: In(ids), desiredState: STARTED, state: Not(In([ERROR, BUILD_FAILED]))
SandboxMatches(sb, orgIds) ==
    /\ sb.organizationId \in orgIds
    /\ sb.desiredState = "STARTED"
    /\ sb.state \notin {"ERROR", "BUILD_FAILED"}

\* innerJoin snapshot on snapshot.internalName = snapshotRunner.snapshotRef,
\* where snapshot.general = false and snapshot.organizationId IN (ids)
SnapshotRunnerMatches(d, sr, orgIds) ==
    \E n \in Snapshots :
        /\ n = sr.snapshotRef
        /\ ~d.snapshots[n].general
        /\ d.snapshots[n].organizationId \in orgIds

\* the orders in which the rows of a result can come back
Enumerations(S) ==
    {q \in [1..Cardinality(S) -> S] : \A a, b \in 1..Cardinality(S) : a # b => q[a] # q[b]}

\* every order of every set of sandbox ids or of snapshot-runner ids
RowOrders ==
    UNION {Enumerations(S) : S \in (SUBSET Sandboxes) \cup (SUBSET SnapshotRunners)}

\* an order that ignores the creation instants
AnyOrder(d, q) == TRUE

\* orderBy('snapshotRunner.createdAt', 'ASC')
Ascending(d, q) ==
    \A a, b \in 1..Len(q) :
        a < b => d.snapshotRunners[q[a]].createdAt <= d.snapshotRunners[q[b]].createdAt

\* the row ids a sweep's second query can return, in order
QueryRows(d, j, orgIds) ==
    IF j = StopSweep
      THEN Enumerations({s \in Sandboxes : SandboxMatches(d.sandboxes[s], orgIds)})
      ELSE {q \in Enumerations({r \in SnapshotRunners :
                                  SnapshotRunnerMatches(d, d.snapshotRunners[r], orgIds)}) :
              Ascending(d, q)}

\* a guard that never takes the early return
NoOrganizationsNever(orgs) == FALSE

\* if (suspendedOrganizationIds.length === 0) { del; return }
NoOrganizations(orgs) == orgs = {}

IdleInstance ==
    [pc |-> "idle", trigger |-> "NONE", acquired |-> "NONE", sawLive |-> FALSE,
     raised |-> "NONE", found |-> FALSE, foundAt |-> 0, orgs |-> {},
     queried |-> FALSE, emitted |-> <<>>, running |-> {}, released |-> FALSE]

\* instance i is between a successful acquire and the end of its run
InBody(i) == inst[i].pc \in {"findSuspended", "query", "release"}

\* the process starts: onModuleInit awaits stopSuspendedOrganizationSandboxes
Boot(i) ==
    /\ inst[i].pc = "down"
    /\ inst' = [inst EXCEPT ![i] =
          IF job = StopSweep THEN [IdleInstance EXCEPT !.pc = "lock", !.trigger = "onModuleInit"]
                             ELSE IdleInstance]
    /\ fired' = [fired EXCEPT ![i] = TRUE]
    /\ UNCHANGED <<now, lockStore, job, bodyRuns>>
    /\ UNCHANGED <<overran, destroyVars, dataVars, clientVars>>

\* the instance's @Cron timer fires for the current interval
CronFire(i) ==
    /\ inst[i].pc = "idle"
    /\ ~fired[i]
    /\ now % CronInterval < TimeStep
    /\ inst' = [inst EXCEPT ![i] = [IdleInstance EXCEPT !.pc = "lock", !.trigger = "cron"]]
    /\ fired' = [fired EXCEPT ![i] = TRUE]
    /\ UNCHANGED <<now, lockStore, job, bodyRuns>>
    /\ UNCHANGED <<overran, destroyVars, dataVars, clientVars>>

\* lines 493-497 / 534-538: take the lock or return
Lock(i) ==
    /\ inst[i].pc = "lock"
    /\ LET got == LockAcquired(lockStore, job, now)
           r == [inst[i] EXCEPT !.acquired = IF got THEN "TRUE" ELSE "FALSE",
                                !.sawLive = KeyLive(lockStore, job, now)]
       IN /\ lockStore' = IF got THEN LockSet(lockStore, job, LockTtl, now, i) ELSE lockStore
          /\ IF SweepProceeds(got)
               THEN /\ inst' = [inst EXCEPT ![i] = [r EXCEPT !.pc = "findSuspended"]]
                    /\ bodyRuns' = bodyRuns \cup {i}
               ELSE /\ inst' = [inst EXCEPT ![i] = [r EXCEPT !.pc = "idle"]]
                    /\ UNCHANGED bodyRuns
    /\ UNCHANGED <<now, job, fired>>
    /\ UNCHANGED <<overran, destroyVars, dataVars, clientVars>>

\* lines 499-512 / 540-551: the organization query; it may fail; an empty
\* result takes the early return
FindSuspended(i, ok, sel) ==
    /\ inst[i].pc = "findSuspended"
    /\ sel \in findSuspended(db.organizations, SuspendedBefore(now), SuspendedAfter(now), now)
    /\ inst' = [inst EXCEPT ![i] =
          IF ~ok THEN [@ EXCEPT !.pc = "idle", !.raised = "QueryFailed"]
          ELSE [@ EXCEPT !.pc = IF NoOrganizations(sel) THEN "release" ELSE "query",
                         !.found = TRUE, !.foundAt = now, !.orgs = sel]]
    /\ UNCHANGED <<now, lockStore, job, fired, bodyRuns>>
    /\ UNCHANGED <<overran, destroyVars, dataVars, clientVars>>

Range(q) == {q[k] : k \in 1..Len(q)}

\* a dispatch cut short after the first row
DispatchedFirst(rows) == IF rows = <<>> THEN rows ELSE <<rows[1]>>

\* rows.map((row) => this.eventEmitter.emitAsync(...)): one event per row, in
\* row order, all of them before the call returns
Dispatched(rows) == rows

\* lines 514-527 / 553-566: the sandbox (or snapshot-runner) query, then one
\* emitAsync per row, carrying the row's id, not awaited: the consumers of
\* the events run on after the call
Query(i, ok, rows) ==
    /\ inst[i].pc = "query"
    /\ rows \in QueryRows(db, job, inst[i].orgs)
    /\ inst' = [inst EXCEPT ![i] =
          IF ~ok
            THEN [@ EXCEPT !.pc = "idle", !.queried = TRUE, !.raised = "QueryFailed"]
            ELSE [@ EXCEPT !.pc = "release", !.queried = TRUE,
                           !.emitted = Dispatched(rows),
                           !.running = Range(Dispatched(rows))]]
    /\ UNCHANGED <<now, lockStore, job, fired, bodyRuns>>
    /\ UNCHANGED <<overran, destroyVars, dataVars, clientVars>>

\* lines 510 and 529: await this.redis.del(lockKey)
Release(i) ==
    /\ inst[i].pc = "release"
    /\ lockStore' = RedisDel(lockStore, job)
    /\ inst' = [inst EXCEPT ![i] = [@ EXCEPT !.pc = "idle", !.released = TRUE]]
    /\ UNCHANGED <<now, job, fired, bodyRuns>>
    /\ UNCHANGED <<overran, destroyVars, dataVars, clientVars>>

\* time passes; keys whose expiry is reached disappear; a new interval re-arms the timers
Tick ==
    /\ now + TimeStep <= MaxTime
    /\ now' = now + TimeStep
    /\ lockStore' = Expire(lockStore, now + TimeStep)
    /\ IF Interval(now + TimeStep) # Interval(now)
         THEN /\ fired' = [i \in Instances |-> FALSE]
              /\ bodyRuns' = {}
         ELSE UNCHANGED <<fired, bodyRuns>>
    /\ overran' = (overran \/ \E i \in Instances :
                                  /\ InBody(i)
                                  /\ lockStore[job].held /\ lockStore[job].setBy = i
                                  /\ now + TimeStep >= lockStore[job].expires)
    /\ UNCHANGED <<inst, job>>
    /\ UNCHANGED <<destroyVars, dataVars, clientVars>>

\* the consumer of one event of instance i's run finishes
Consume(i, id) ==
    /\ id \in inst[i].running
    /\ inst' = [inst EXCEPT ![i] = [@ EXCEPT !.running = @ \ {id}]]
    /\ UNCHANGED <<now, lockStore, job, fired, bodyRuns>>
    /\ UNCHANGED <<overran, destroyVars, dataVars, clientVars>>

\* a request handler checks the caller's organization
CheckSuspended(o) ==
    /\ lastCheck' = [org |-> o, at |-> now,
                     result |-> assertOrganizationIsNotSuspended(db.organizations[o], now)]
    /\ UNCHANGED db
    /\ UNCHANGED <<destroyVars, sweepVars, clientVars>>

(***************************************************************************)
(* The HTTP client of the legacy adapter: axios-retry, then the response   *)
(* interceptor                                                             *)
(***************************************************************************)
\* axiosRetry(axiosInstance, { retries: 3, ... }): retries after the first attempt
Retries == 3

\* adapter methods that go through the client
LegacyCalls == {"info", "start", "stop", "destroy", "removeDestroyed", "snapshotExists"}

\* the ways one attempt fails: kind says what happened on the wire, the other
\* fields are what the error object shows
TransportErrors ==
    {[kind |-> "reset", code |-> "ECONNRESET", messageHasReset |-> TRUE,
      causeCode |-> "NONE", failure |-> "FAILED"],
     [kind |-> "reset", code |-> "NONE", messageHasReset |-> TRUE,
      causeCode |-> "NONE", failure |-> "FAILED"],
     [kind |-> "reset", code |-> "ERR_NETWORK", messageHasReset |-> FALSE,
      causeCode |-> "ECONNRESET", failure |-> "FAILED"],
     [kind |-> "refused", code |-> "ECONNREFUSED", messageHasReset |-> FALSE,
      causeCode |-> "NONE", failure |-> "FAILED"],
     [kind |-> "timeout", code |-> "ECONNABORTED", messageHasReset |-> FALSE,
      causeCode |-> "NONE", failure |-> "FAILED"],
     [kind |-> "status", code |-> "ERR_BAD_RESPONSE", messageHasReset |-> FALSE,
      causeCode |-> "NONE", failure |-> "FAILED"],
     [kind |-> "status", code |-> "ERR_BAD_REQUEST", messageHasReset |-> FALSE,
      causeCode |-> "NONE", failure |-> "NOT_FOUND"]}

NoTransportError ==
    [kind |-> "NONE", code |-> "NONE", messageHasReset |-> FALSE,
     causeCode |-> "NONE", failure |-> "NONE"]

\* a condition that retries every failure
RetryEverything(error) == TRUE

\* retryCondition: code, message or cause names ECONNRESET
RetryCondition(error) ==
    \/ error.code = "ECONNRESET"
    \/ error.messageHasReset
    \/ error.causeCode = "ECONNRESET"

\* axios-retry: retry while the condition holds and fewer than retries were made
ShouldRetry(retryCount, error) == retryCount < Retries /\ RetryCondition(error)

IdleRequest ==
    [pc |-> "idle", call |-> "NONE", attempts |-> 0, retryCount |-> 0,
     allReset |-> TRUE, retriedOn |-> {}, last |-> NoTransportError,
     result |-> "NONE", raised |-> "NONE"]

\* an adapter method issues its request
Send(method) ==
    /\ req.pc \in {"idle", "done"}
    /\ req' = [IdleRequest EXCEPT !.pc = "sending", !.call = method]
    /\ UNCHANGED <<call, logs, orgSvc, proc>>
    /\ UNCHANGED <<destroyVars, sweepVars, dataVars>>

\* one attempt on the wire, and what the client does with its outcome
Attempt(ok, error) ==
    /\ req.pc = "sending"
    /\ LET r == [req EXCEPT !.attempts = @ + 1] IN
       req' = IF ok
                THEN [r EXCEPT !.pc = "done", !.result = "OK", !.allReset = FALSE]
              ELSE IF ShouldRetry(req.retryCount, error)
                THEN [r EXCEPT !.retryCount = @ + 1, !.last = error,
                               !.allReset = @ /\ error.kind = "reset",
                               !.retriedOn = @ \cup {error.kind}]
              ELSE [r EXCEPT !.pc = "done", !.result = "Error", !.last = error,
                             !.allReset = @ /\ error.kind = "reset",
                             !.raised = LegacyInterceptor(error).name]
    /\ UNCHANGED <<call, logs, orgSvc, proc>>
    /\ UNCHANGED <<destroyVars, sweepVars, dataVars>>

(***************************************************************************)
(* Adapter methods: state conversion, healthCheck, getSnapshotLogs         *)
(***************************************************************************)
\* what a runner says about a backup; UNSPECIFIED is a value neither adapter
\* names.  A report reaches an adapter as the member of its client's
\* enumeration for that report, written here by the report's name.
ReportedBackupStates == {"PENDING", "IN_PROGRESS", "COMPLETED", "FAILED", "UNSPECIFIED"}

\* RunnerAdapterLegacy.convertSandboxState
LegacyConvertSandboxState(state) ==
    CASE state = "CREATING" -> "CREATING"
      [] state = "RESTORING" -> "RESTORING"
      [] state = "DESTROYED" -> "DESTROYED"
      [] state = "DESTROYING" -> "DESTROYING"
      [] state = "STARTED" -> "STARTED"
      [] state = "STOPPED" -> "STOPPED"
      [] state = "STARTING" -> "STARTING"
      [] state = "STOPPING" -> "STOPPING"
      [] state = "ERROR" -> "ERROR"
      [] state = "PULLING_SNAPSHOT" -> "PULLING_SNAPSHOT"
      [] OTHER -> "UNKNOWN"

\* RunnerAdapterLegacy.convertBackupState
LegacyConvertBackupState(state) ==
    CASE state = "PENDING" -> "PENDING"
      [] state = "IN_PROGRESS" -> "IN_PROGRESS"
      [] state = "COMPLETED" -> "COMPLETED"
      [] OTHER -> "NONE"

\* RunnerAdapterV1.convertSandboxState
V1ConvertSandboxState(state) ==
    CASE state = "CREATING" -> "CREATING"
      [] state = "RESTORING" -> "RESTORING"
      [] state = "DESTROYED" -> "DESTROYED"
      [] state = "DESTROYING" -> "DESTROYING"
      [] state = "STARTED" -> "STARTED"
      [] state = "STOPPED" -> "STOPPED"
      [] state = "STARTING" -> "STARTING"
      [] state = "STOPPING" -> "STOPPING"
      [] state = "ERROR" -> "ERROR"
      [] state = "PULLING_SNAPSHOT" -> "PULLING_SNAPSHOT"
      [] OTHER -> "UNKNOWN"

\* RunnerAdapterV1.convertBackupState
V1ConvertBackupState(state) ==
    CASE state = "PENDING" -> "PENDING"
      [] state = "IN_PROGRESS" -> "IN_PROGRESS"
      [] state = "COMPLETED" -> "COMPLETED"
      [] state = "FAILED" -> "ERROR"
      [] OTHER -> "NONE"

\* the client fields each init assigns
InitHandles(class) ==
    IF class = "RunnerAdapterLegacy"
      THEN {"apiClientSandbox", "apiClientSnapshot"}
      ELSE {"runnerClient", "sandboxServiceClient", "snapshotServiceClient",
            "healthServiceClient"}

\* the client field each healthCheck reads
HealthHandle(class) ==
    IF class = "RunnerAdapterLegacy" THEN "apiClient" ELSE "healthServiceClient"

NoCall ==
    [pc |-> "none", class |-> "NONE", handles |-> {}, method |-> "NONE",
     state |-> "NONE", backupState |-> "NONE", healthy |-> FALSE, log |-> "NONE",
     outState |-> "NONE", outBackupState |-> "NONE", outLog |-> "NONE",
     raised |-> "NONE", args |-> {}, sent |-> {}]

\* runnerAdapterFactory.create(runner) hands out an adapter
NewAdapter ==
    /\ LET f == FactoryCreate(runner) IN
       /\ f.error = "NONE"
       /\ call' = [NoCall EXCEPT !.pc = "ready", !.class = f.adapter,
                                 !.handles = InitHandles(f.adapter)]
    /\ UNCHANGED <<req, logs, orgSvc, proc>>
    /\ UNCHANGED <<destroyVars, sweepVars, dataVars>>

\* a method of the adapter at hand is entered
Called(method) ==
    [NoCall EXCEPT !.pc = "ready", !.class = call.class, !.handles = call.handles,
                   !.method = method]

\* adapter.info against a runner reporting (state, backupState)
AdapterInfo(state, backupState) ==
    /\ call.pc = "ready"
    /\ call' = [Called("info") EXCEPT
                  !.state = state, !.backupState = backupState,
                  !.outState =
                     IF call.class = "RunnerAdapterLegacy"
                       THEN LegacyConvertSandboxState(state)
                       ELSE V1ConvertSandboxState(state),
                  !.outBackupState =
                     IF call.class = "RunnerAdapterLegacy"
                       THEN LegacyConvertBackupState(backupState)
                       ELSE V1ConvertBackupState(backupState)]
    /\ UNCHANGED <<req, logs, orgSvc, proc>>
    /\ UNCHANGED <<destroyVars, sweepVars, dataVars>>

\* adapter.healthCheck against a runner that is healthy or not: reading a
\* client field no init assigned yields undefined, and the call on it throws
HealthCheck(healthy) ==
    /\ call.pc = "ready"
    /\ call' = [Called("healthCheck") EXCEPT
                  !.healthy = healthy,
                  !.raised = IF HealthHandle(call.class) \notin call.handles
                               THEN "TypeError"
                             ELSE IF ~healthy THEN "Runner is not healthy"
                             ELSE "NONE"]
    /\ UNCHANGED <<req, logs, orgSvc, proc>>
    /\ UNCHANGED <<destroyVars, sweepVars, dataVars>>

\* adapter.getSnapshotLogs(ref, false) against a runner holding the build log
\* text log: the legacy adapter returns the response body, the current one
\* awaits the first message of the stream and returns a literal
AdapterGetSnapshotLogs(log, failure) ==
    /\ call.pc = "ready"
    /\ call' = [Called("getSnapshotLogs") EXCEPT
                  !.log = log,
                  !.raised = IF failure = "NONE" THEN "NONE" ELSE "Error",
                  !.outLog = IF failure # "NONE" THEN "NONE"
                             ELSE IF call.class = "RunnerAdapterLegacy" THEN log
                             ELSE "TODO"]
    /\ UNCHANGED <<req, logs, orgSvc, proc>>
    /\ UNCHANGED <<destroyVars, sweepVars, dataVars>>

\* the request fields RunnerAdapterLegacy.create and .removeSnapshot fill in
LegacyForwarded(method) ==
    IF method = "create"
      THEN {"id", "snapshot", "osUser", "userId", "storageQuota", "memoryQuota",
            "cpuQuota", "env", "registry"}
      ELSE {"snapshot"}

\* the request fields RunnerAdapterV1.create and .removeSnapshot fill in
V1Forwarded(method) ==
    IF method = "create"
      THEN {"id", "snapshot", "osUser", "userId", "storageQuota", "memoryQuota",
            "cpuQuota", "gpuQuota", "env", "registry", "entrypoint", "volumes"}
      ELSE {"snapshot", "force"}

\* adapter.create(sandbox, registry) or adapter.removeSnapshot(name, force):
\* args are the (field, value) pairs the caller holds, sent those in the request
AdapterForward(method, args) ==
    /\ call.pc = "ready"
    /\ call' = [Called(method) EXCEPT
                  !.args = args,
                  !.sent = {a \in args :
                              a[1] \in (IF call.class = "RunnerAdapterLegacy"
                                          THEN LegacyForwarded(method)
                                          ELSE V1Forwarded(method))}]
    /\ UNCHANGED <<req, logs, orgSvc, proc>>
    /\ UNCHANGED <<destroyVars, sweepVars, dataVars>>

(***************************************************************************)
(* The runner's GetSnapshotLogs stream                                     *)
(***************************************************************************)
\* lines the build may append to the log file
MaxLines == 2
\* RemoveSnapshot requests the runner serves
MaxRemoves == 2

\* snapshot references, as a first part and the rest
SnapshotRefs == {<<"daytona", "-3f9a">>, <<"registry.local", "/app:1">>}

\* lines 55-60: the reference the existence poll asks about
CheckSnapshotRef(ref) ==
    IF Len(ref) > 0 /\ ref[1] = "daytona" THEN ref \o <<":daytona">> ELSE ref

Completed == "Build completed successfully"

NoStream ==
    [pc |-> "idle", ref |-> <<>>, follow |-> FALSE, status |-> "NONE",
     stream |-> <<>>, read |-> 0, polled |-> {}, sawExists |-> FALSE,
     existedAtEnd |-> FALSE, written |-> 0, images |-> {},
     closed |-> FALSE, reader |-> "none", spun |-> FALSE, removes |-> <<>>]

\* lines 20-51: the log file is looked up and opened; without follow the file
\* is handed to SendMsg and the closing message follows if that succeeded
GetSnapshotLogs(ref, follow, present, sendMsg) ==
    /\ logs.pc = "idle"
    /\ LET l == [logs EXCEPT !.ref = ref, !.follow = follow] IN
       logs' = IF ~present
                 THEN [l EXCEPT !.pc = "returned", !.status = "NotFound"]
               ELSE IF follow
                 THEN [l EXCEPT !.pc = "polling", !.reader = "running"]
               ELSE IF sendMsg
                 THEN [l EXCEPT !.pc = "returned", !.status = "OK", !.closed = TRUE,
                                !.stream = <<"file", "Fetching build logs finished">>]
               ELSE [l EXCEPT !.pc = "returned", !.status = "Internal", !.closed = TRUE]
    /\ UNCHANGED <<req, call, orgSvc, proc>>
    /\ UNCHANGED <<destroyVars, sweepVars, dataVars>>

\* the build appends a line to the log file
BuildWrites ==
    /\ logs.written < MaxLines
    /\ logs' = [logs EXCEPT !.written = @ + 1]
    /\ UNCHANGED <<req, call, orgSvc, proc>>
    /\ UNCHANGED <<destroyVars, sweepVars, dataVars>>

\* an image appears in the runner's image store
ImageAppears(ref) ==
    /\ ref \notin logs.images
    /\ logs' = [logs EXCEPT !.images = @ \cup {ref}]
    /\ UNCHANGED <<req, call, orgSvc, proc>>
    /\ UNCHANGED <<destroyVars, sweepVars, dataVars>>

\* lines 67-83: the reader goroutine sends the next line of the file while
\* the handler has not returned
ReaderSends ==
    /\ logs.pc \in {"polling", "completing"}
    /\ logs.reader = "running"
    /\ logs.read < logs.written
    /\ logs' = [logs EXCEPT !.read = @ + 1, !.stream = Append(@, "line")]
    /\ UNCHANGED <<req, call, orgSvc, proc>>
    /\ UNCHANGED <<destroyVars, sweepVars, dataVars>>

\* lines 85-101: one round of the poll loop; a failed SnapshotExists call is
\* logged and leaves the loop, a true answer leaves it after a sleep, a false
\* answer sleeps and polls again
Poll(failed) ==
    /\ logs.pc = "polling"
    /\ LET asked == CheckSnapshotRef(logs.ref)
           l == [logs EXCEPT !.polled = @ \cup {asked}] IN
       logs' = IF failed THEN [l EXCEPT !.pc = "completing"]
               ELSE IF asked \in logs.images
                 THEN [l EXCEPT !.pc = "completing", !.sawExists = TRUE]
               ELSE l
    /\ UNCHANGED <<req, call, orgSvc, proc>>
    /\ UNCHANGED <<destroyVars, sweepVars, dataVars>>

\* lines 103-105: the closing message, and the stream ends
Complete ==
    /\ logs.pc = "completing"
    /\ logs' = [logs EXCEPT !.pc = "returned", !.status = "OK", !.closed = TRUE,
                            !.stream = Append(@, Completed),
                            !.existedAtEnd = CheckSnapshotRef(logs.ref) \in logs.images]
    /\ UNCHANGED <<req, call, orgSvc, proc>>
    /\ UNCHANGED <<destroyVars, sweepVars, dataVars>>

\* a read at the end of a file that stays open whatever the handler did
ReadAtEndOpen(closed) == "EOF"

\* line 69 at the end of the buffered data: EOF while the file is open, the
\* closed-file error once the handler's deferred file.Close() (line 41) has run
ReadAtEnd(closed) == IF closed THEN "ErrClosed" ELSE "EOF"

\* lines 67-83 after the handler has returned: a line still buffered goes to
\* stream.Send, which fails on the finished stream and ends the loop; with
\* nothing buffered ReadBytes runs, and only an error other than EOF ends the loop
ReaderAfterReturn(buffered) ==
    /\ logs.pc = "returned"
    /\ logs.reader = "running"
    /\ buffered => logs.read < logs.written
    /\ logs' = IF buffered \/ ReadAtEnd(logs.closed) # "EOF"
                THEN [logs EXCEPT !.reader = "done"]
                ELSE [logs EXCEPT !.spun = TRUE]
    /\ UNCHANGED <<req, call, orgSvc, proc>>
    /\ UNCHANGED <<destroyVars, sweepVars, dataVars>>

\* a removal that reports every engine error
RemoveResultStrict(err) == IF err = "NONE" THEN "removed" ELSE "error"

\* pull.go lines 94-108: what RemoveSnapshot answers after ImageRemove
RemoveResult(err) ==
    IF err = "NONE" THEN "removed"
    ELSE IF err = "NotFound" THEN "already removed or not found"
    ELSE "error"

\* RemoveSnapshot(ref, force): ImageRemove answers NotFound only for an image
\* the engine does not have, and removes the image when it answers no error
RemoveSnapshot(ref, force, err) ==
    /\ Len(logs.removes) < MaxRemoves
    /\ err = "NotFound" <=> (ref \notin logs.images /\ err # "Unavailable")
    /\ err = "Conflict" => ~force
    /\ logs' = [logs EXCEPT
                  !.images = IF err = "NONE" THEN @ \ {ref} ELSE @,
                  !.removes = Append(@, [ref |-> ref, had |-> ref \in logs.images,
                                         err |-> err, result |-> RemoveResult(err)])]
    /\ UNCHANGED <<req, call, orgSvc, proc>>
    /\ UNCHANGED <<destroyVars, sweepVars, dataVars>>

(***************************************************************************)
(* OrganizationService: creation and suspension of organizations           *)
(***************************************************************************)
\* if (createdCount >= 10)
CreatedLimit == 10

Users == {"u1", "u2"}
CreateRequests == {1, 2}

NoOrganization ==
    [rows |-> <<>>,
     reqs |-> [q \in CreateRequests |->
                 [pc |-> "idle", createdBy |-> "NONE", personal |-> FALSE,
                  raised |-> "NONE", saved |-> FALSE]]]

\* entityManager.count(Organization, { where })
Count(rows, createdBy, personalOnly) ==
    Cardinality({k \in 1..Len(rows) :
                   /\ rows[k].createdBy = createdBy
                   /\ personalOnly => rows[k].personal})

\* what is left of a create call that returned or raised
CreateReturned(raised, saved) ==
    [pc |-> "done", createdBy |-> "NONE", personal |-> FALSE,
     raised |-> raised, saved |-> saved]

\* create(dto, createdBy, personal, creatorEmailVerified) is called
CreateBegin(q, createdBy, personal) ==
    /\ orgSvc.reqs[q].pc = "idle"
    /\ orgSvc' = [orgSvc EXCEPT !.reqs[q] =
          [pc |-> IF personal THEN "countPersonal" ELSE "countCreated",
           createdBy |-> createdBy, personal |-> personal,
           raised |-> "NONE", saved |-> FALSE]]
    /\ UNCHANGED <<req, call, logs, proc>>
    /\ UNCHANGED <<destroyVars, sweepVars, dataVars>>

\* lines 399-406: the count of the creator's personal organizations
CountPersonal(q) ==
    /\ orgSvc.reqs[q].pc = "countPersonal"
    /\ orgSvc' = [orgSvc EXCEPT !.reqs[q] =
          IF Count(orgSvc.rows, @.createdBy, TRUE) > 0
            THEN CreateReturned("Personal organization already exists", FALSE)
            ELSE [@ EXCEPT !.pc = "countCreated"]]
    /\ UNCHANGED <<req, call, logs, proc>>
    /\ UNCHANGED <<destroyVars, sweepVars, dataVars>>

\* lines 409-414: the count of the organizations the creator created
CountCreated(q) ==
    /\ orgSvc.reqs[q].pc = "countCreated"
    /\ orgSvc' = [orgSvc EXCEPT !.reqs[q] =
          IF Count(orgSvc.rows, @.createdBy, FALSE) >= CreatedLimit
            THEN CreateReturned("You have reached the maximum number of created organizations", FALSE)
            ELSE [@ EXCEPT !.pc = "save"]]
    /\ UNCHANGED <<req, call, logs, proc>>
    /\ UNCHANGED <<destroyVars, sweepVars, dataVars>>

\* lines 416-440: the new row; unset columns are null
NewOrganization(createdBy, personal, verified, billing) ==
    LET reason == IF ~verified THEN "Please verify your email address"
                  ELSE IF billing /\ ~personal THEN "Payment method required"
                  ELSE "null"
    IN [createdBy |-> createdBy, personal |-> personal,
        suspended |-> reason # "null",
        suspendedAt |-> IF reason # "null" THEN DateAt(now) ELSE NullDate,
        suspendedUntil |-> NullDate,
        suspensionReason |-> reason,
        lifted |-> FALSE]

\* lines 432-453: creatorEmailVerified and BILLING_ENABLED are read, and the
\* row is saved in a transaction of its own
CreateSave(q, verified, billing) ==
    /\ orgSvc.reqs[q].pc = "save"
    /\ LET r == orgSvc.reqs[q] IN
       orgSvc' = [orgSvc EXCEPT
          !.rows = Append(@, NewOrganization(r.createdBy, r.personal, verified, billing)),
          !.reqs[q] = CreateReturned("NONE", TRUE)]
    /\ UNCHANGED <<req, call, logs, proc>>
    /\ UNCHANGED <<destroyVars, sweepVars, dataVars>>

\* suspend(organizationId, suspensionReason, suspendedUntil): reason || null,
\* suspendedUntil || null, suspendedAt = new Date()
Suspend(k, reason, until) ==
    /\ k \in 1..Len(orgSvc.rows)
    /\ orgSvc' = [orgSvc EXCEPT !.rows[k] =
          [@ EXCEPT !.suspended = TRUE,
                    !.suspensionReason = IF reason = "undefined" THEN "null" ELSE reason,
                    !.suspendedUntil = until,
                    !.suspendedAt = DateAt(now)]]
    /\ UNCHANGED <<req, call, logs, proc>>
    /\ UNCHANGED <<destroyVars, sweepVars, dataVars>>

\* a lifting of the suspension that keeps the suspension date
UnsuspendedKeepsDate(org) ==
    [org EXCEPT !.suspended = FALSE, !.suspensionReason = "null",
                !.suspendedUntil = NullDate, !.lifted = TRUE]

\* lines 383-386 and 472-475: the four suspension fields are reset; lifted
\* records that the row went through here
Unsuspended(org) ==
    [org EXCEPT !.suspended = FALSE, !.suspensionReason = "null",
                !.suspendedUntil = NullDate, !.suspendedAt = NullDate,
                !.lifted = TRUE]

\* unsuspend(organizationId)
Unsuspend(k) ==
    /\ k \in 1..Len(orgSvc.rows)
    /\ orgSvc' = [orgSvc EXCEPT !.rows[k] = Unsuspended(@)]
    /\ UNCHANGED <<req, call, logs, proc>>
    /\ UNCHANGED <<destroyVars, sweepVars, dataVars>>

\* unsuspendPersonalWithEntityManager(em, userId): the personal organization
\* findOne returns for the user
UnsuspendPersonal(k) ==
    /\ k \in 1..Len(orgSvc.rows)
    /\ orgSvc.rows[k].personal
    /\ orgSvc' = [orgSvc EXCEPT !.rows[k] = Unsuspended(@)]
    /\ UNCHANGED <<req, call, logs, proc>>
    /\ UNCHANGED <<destroyVars, sweepVars, dataVars>>

(***************************************************************************)
(* The runner process: main, Server.Shutdown, the shutdown goroutine       *)
(***************************************************************************)
Servers == {"grpc", "proxy", "metrics"}

\* servers started, main blocked in its first select
NotStarted ==
    [main |-> "serving", servers |-> [s \in Servers |-> "running"],
     signalled |-> FALSE, trigger |-> "NONE", timer |-> FALSE, shut |-> "none",
     attempted |-> <<>>, graceful |-> FALSE, forced |-> FALSE, grpcRet |-> "NONE",
     late |-> FALSE, exit |-> "NONE"]

\* a shutdown goroutine that starts with the metrics server
AfterMetricsFirst(server) ==
    IF server = "none" THEN "metrics"
    ELSE IF server = "metrics" THEN "proxy"
    ELSE IF server = "proxy" THEN "grpc"
    ELSE "done"

\* part_002 lines 133-148: the server the shutdown goroutine turns to next
After(server) ==
    IF server = "none" THEN "grpc"
    ELSE IF server = "grpc" THEN "proxy"
    ELSE IF server = "proxy" THEN "metrics"
    ELSE "done"

\* a select in Shutdown without the ctx.Done() case
CtxDoneIgnored(shut) == shut

\* Shutdown lines 164-167: ctx.Done() wakes a Shutdown blocked in its select
CtxDone(shut) == IF shut = "grpc" THEN "grpcStop" ELSE shut

\* SIGINT or SIGTERM reaches the process
Signal ==
    /\ proc.exit = "NONE"
    /\ proc.main = "serving"
    /\ ~proc.signalled
    /\ proc' = [proc EXCEPT !.signalled = TRUE]
    /\ UNCHANGED <<req, call, logs, orgSvc>>
    /\ UNCHANGED <<destroyVars, sweepVars, dataVars>>

\* lines 95-110: a server's Start returns and its result goes to errChan,
\* whose buffer has room for all three
ServerExits(s, result) ==
    /\ proc.exit = "NONE"
    /\ proc.servers[s] = "running"
    /\ proc' = [proc EXCEPT !.servers[s] = result]
    /\ UNCHANGED <<req, call, logs, orgSvc>>
    /\ UNCHANGED <<destroyVars, sweepVars, dataVars>>

\* lines 113-148: main leaves its first select, arms the 10-second context
\* and starts the shutdown goroutine, which calls grpcServer.Shutdown
MainSelect(case) ==
    /\ proc.exit = "NONE"
    /\ proc.main = "serving"
    /\ IF case = "signal" THEN proc.signalled
                          ELSE \E s \in Servers : proc.servers[s] # "running"
    /\ proc' = [proc EXCEPT !.main = "waiting", !.trigger = case,
                            !.shut = After("none"),
                            !.attempted = <<After("none")>>]
    /\ UNCHANGED <<req, call, logs, orgSvc>>
    /\ UNCHANGED <<destroyVars, sweepVars, dataVars>>

\* the server the shutdown goroutine is at has been dealt with: it goes on
\* to the next one, or closes shutdownDone and wakes main
Proceed(p) ==
    LET next == After(p.shut) IN
    IF next = "done"
      THEN [p EXCEPT !.shut = "done",
                     !.main = IF p.main = "waiting" THEN "completed" ELSE @]
      ELSE [p EXCEPT !.shut = next, !.attempted = Append(@, next)]

\* Shutdown lines 155-163: GracefulStop returns, done is closed, Shutdown
\* returns nil
GracefulStopCompletes ==
    /\ proc.exit = "NONE"
    /\ proc.shut = "grpc"
    /\ proc' = Proceed([proc EXCEPT !.graceful = TRUE, !.grpcRet = "nil"])
    /\ UNCHANGED <<req, call, logs, orgSvc>>
    /\ UNCHANGED <<destroyVars, sweepVars, dataVars>>

\* the 10 seconds of shutdownCtx elapse: a main blocked in its second select
\* takes the timeout case, a Shutdown blocked in its select takes ctx.Done();
\* late records that shutdownDone was not closed by then
TimerFires ==
    /\ proc.exit = "NONE"
    /\ proc.main \in {"waiting", "completed"}
    /\ ~proc.timer
    /\ proc' = [proc EXCEPT !.timer = TRUE, !.late = proc.shut # "done",
                            !.main = IF @ = "waiting" THEN "timedOut" ELSE @,
                            !.shut = CtxDone(@)]
    /\ UNCHANGED <<req, call, logs, orgSvc>>
    /\ UNCHANGED <<destroyVars, sweepVars, dataVars>>

\* Shutdown lines 165-167: grpcServer.Stop(), return ctx.Err()
ForceStop ==
    /\ proc.exit = "NONE"
    /\ proc.shut = "grpcStop"
    /\ proc' = Proceed([proc EXCEPT !.shut = "grpc", !.forced = TRUE,
                                    !.grpcRet = "ctxErr"])
    /\ UNCHANGED <<req, call, logs, orgSvc>>
    /\ UNCHANGED <<destroyVars, sweepVars, dataVars>>

\* lines 137-145: proxyServer.Shutdown or metricsServer.Shutdown returns,
\* with the context's error only if the context is done
OtherShutdown(s, ok) ==
    /\ proc.exit = "NONE"
    /\ proc.shut = s
    /\ s \in {"proxy", "metrics"}
    /\ ~ok => proc.timer
    /\ proc' = Proceed(proc)
    /\ UNCHANGED <<req, call, logs, orgSvc>>
    /\ UNCHANGED <<destroyVars, sweepVars, dataVars>>

\* lines 151-157 and the return of main: the process ends
Exit ==
    /\ proc.exit = "NONE"
    /\ proc.main \in {"completed", "timedOut"}
    /\ proc' = [proc EXCEPT !.main = "exited",
                            !.exit = IF proc.main = "timedOut" THEN "1" ELSE "0"]
    /\ UNCHANGED <<req, call, logs, orgSvc>>
    /\ UNCHANGED <<destroyVars, sweepVars, dataVars>>

(***************************************************************************)
(* Specifications                                                          *)
(***************************************************************************)
RunnerRecords ==
    [state : RunnerStates, version : RunnerVersions, scheme : ApiUrlSchemes]

LegacyHttpRunner ==
    {r \in RunnerRecords : r.state = "READY" /\ r.version = "0" /\ r.scheme = "http"}

DestroyIdle ==
    /\ inv = [p \in Invocations |-> IdleInvocation]
    /\ runCount = 0
    /\ destroyedCount = 0

NotSuspended == [suspended |-> FALSE, suspendedAt |-> NullDate, suspendedUntil |-> NullDate]
Suspended(at, until) == [suspended |-> TRUE, suspendedAt |-> DateAt(at), suspendedUntil |-> until]

\* suspension instants around the edges of the window, as seen from the cron
\* trigger at CronInterval: just before the trigger, exactly one day before it,
\* well inside the window, and leaving the window one step after the trigger
SuspendedAtInstants ==
    {CronInterval - TimeStep,
     CronInterval - SuspendedBeforeDays * Day,
     CronInterval - 2 * Day,
     CronInterval + TimeStep - SuspendedAfterDays * Day}

\* no end, an end already passed, an end one step after the trigger
UntilValues == {NullDate, DateAt(0), DateAt(CronInterval + TimeStep)}

OrgRows == {NotSuspended} \cup {Suspended(a, u) : a \in SuspendedAtInstants, u \in UntilValues}

\* a second organization: active, or suspended inside the window with no end
PeerOrgRows == {NotSuspended, Suspended(CronInterval - 2 * Day, NullDate)}

SandboxRows ==
    [organizationId : Orgs, desiredState : {"STARTED", "STOPPED"},
     state : {"STARTED", "ERROR", "BUILD_FAILED"}]

SnapshotRows == [organizationId : Orgs, general : BOOLEAN]

SnapshotRunnerRows == [snapshotRef : Snapshots \cup {"img0"}, createdAt : 1..MaxItems]

DefaultSandboxes ==
    [s \in Sandboxes |->
       [organizationId |-> IF s = "s1" THEN "o1" ELSE "o2",
        desiredState |-> "STARTED", state |-> "STARTED"]]

DefaultSnapshots ==
    [n \in Snapshots |->
       [organizationId |-> IF n = "img1" THEN "o1" ELSE "o2", general |-> n = "img2"]]

DefaultSnapshotRunners ==
    [r \in SnapshotRunners |->
       [snapshotRef |-> "img1", createdAt |-> IF r = "sr1" THEN MaxItems ELSE 1]]

DefaultDb(organizations) ==
    [organizations |-> organizations, sandboxes |-> DefaultSandboxes,
     snapshots |-> DefaultSnapshots, snapshotRunners |-> DefaultSnapshotRunners]

NoCheck == [org |-> "NONE", at |-> 0, result |-> "NONE"]

SweepIdle ==
    /\ now = 0
    /\ lockStore = [k \in Jobs |-> FreeKey]
    /\ inst = [i \in Instances |-> [IdleInstance EXCEPT !.pc = "down"]]
    /\ job = StopSweep
    /\ fired = [i \in Instances |-> FALSE]
    /\ bodyRuns = {}
    /\ overran = FALSE
    /\ db = DefaultDb([o \in Orgs |-> NotSuspended])
    /\ lastCheck = NoCheck

ClientIdle ==
    /\ req = IdleRequest
    /\ call = NoCall
    /\ logs = NoStream
    /\ orgSvc = NoOrganization
    /\ proc = NotStarted

\* one sandbox, any persisted state, any runner record; ticks follow one another
Init ==
    /\ sbState \in SandboxStates
    /\ runner \in RunnerRecords
    /\ moduleRef \in ModuleRefValues
    /\ slots = {1}
    /\ DestroyIdle
    /\ SweepIdle
    /\ ClientIdle

RunStep(p, failures) ==
    \/ Invoke(p)
    \/ Enter(p)
    \/ \E ans \in RunnerReportedStates \cup failures : Info(p, ans)
    \/ \E ans \in {"OK"} \cup failures : Destroy(p, ans)
    \/ \E ans \in {"OK"} \cup failures : RemoveDestroyed(p, ans)
    \/ Update(p)

Next == \E p \in Invocations : RunStep(p, CallFailures)

Spec == Init /\ [][Next]_vars

\* two invocations for the same sandbox may overlap
InitOverlap ==
    /\ sbState \in SandboxStates
    /\ runner \in LegacyHttpRunner
    /\ moduleRef = "ModuleRef"
    /\ slots = Invocations
    /\ DestroyIdle
    /\ SweepIdle
    /\ ClientIdle

SpecOverlap == InitOverlap /\ [][Next]_vars

\* as Init, with sandboxes that have no runner among the others
InitUnplaced ==
    /\ sbState \in SandboxStates
    /\ runner \in RunnerRecords \cup {NoRunner}
    /\ moduleRef = "ModuleRef"
    /\ slots = {1}
    /\ DestroyIdle
    /\ SweepIdle
    /\ ClientIdle

SpecUnplaced == InitUnplaced /\ [][Next]_vars

\* the runner stays READY and usable, no call fails for a transport reason,
\* and the action is invoked again and again
InitLive ==
    /\ sbState \in SandboxStates
    /\ moduleRef = "ModuleRef"
    /\ runner \in {r \in RunnerRecords : r.state = "READY" /\ FactoryCreate(r).error = "NONE"}
    /\ slots = {1}
    /\ DestroyIdle
    /\ SweepIdle
    /\ ClientIdle

NextLive == \E p \in Invocations : RunStep(p, {"NOT_FOUND"})

SpecLive == InitLive /\ [][NextLive]_vars /\ WF_vars(NextLive)

\* no reconciliation and no adapter request in progress
DestroyQuiet ==
    /\ sbState = "STARTED"
    /\ runner \in LegacyHttpRunner
    /\ moduleRef = "ModuleRef"
    /\ slots = {}
    /\ DestroyIdle
    /\ ClientIdle

\* the control-plane instances and one sweep; one organization may be suspended
InitSweep ==
    /\ DestroyQuiet
    /\ now = 0
    /\ lockStore = [k \in Jobs |-> FreeKey]
    /\ inst \in [Instances -> {IdleInstance, [IdleInstance EXCEPT !.pc = "down"]}]
    /\ job \in Jobs
    /\ fired = [i \in Instances |-> FALSE]
    /\ bodyRuns = {}
    /\ overran = FALSE
    /\ db \in {DefaultDb([o \in Orgs |-> IF o = "o1" THEN row ELSE NotSuspended]) :
                 row \in PeerOrgRows}
    /\ lastCheck = NoCheck

SweepStep(i) ==
    \/ CronFire(i)
    \/ Lock(i)
    \/ \E ok \in BOOLEAN, sel \in SUBSET Orgs : FindSuspended(i, ok, sel)
    \/ \E ok \in BOOLEAN, rows \in RowOrders : Query(i, ok, rows)
    \/ Release(i)

NextSweep ==
    \/ \E i \in Instances : Boot(i) \/ SweepStep(i)
    \/ Tick

SpecSweep == InitSweep /\ [][NextSweep]_vars

\* one running instance shortly before a cron trigger, over the rows its sweep reads
InitSelect ==
    /\ DestroyQuiet
    /\ now = CronInterval - TimeStep
    /\ lockStore = [k \in Jobs |-> FreeKey]
    /\ inst = [i \in Instances |-> IF i = 1 THEN IdleInstance
                                            ELSE [IdleInstance EXCEPT !.pc = "off"]]
    /\ job \in Jobs
    /\ fired = [i \in Instances |-> FALSE]
    /\ bodyRuns = {}
    /\ overran = FALSE
    /\ \E o1 \in OrgRows, o2 \in PeerOrgRows :
         LET organizations == [o \in Orgs |-> IF o = "o1" THEN o1 ELSE o2] IN
         IF job = StopSweep
           THEN \E sandboxes \in [Sandboxes -> SandboxRows] :
                  db = [DefaultDb(organizations) EXCEPT !.sandboxes = sandboxes]
           ELSE \E img1 \in SnapshotRows,
                   snapshotRunners \in [SnapshotRunners -> SnapshotRunnerRows] :
                  db = [DefaultDb(organizations) EXCEPT !.snapshots["img1"] = img1,
                                                        !.snapshotRunners = snapshotRunners]
    /\ lastCheck = NoCheck

NextSelect ==
    \/ \E i \in Instances : SweepStep(i)
    \/ Tick

SpecSelect == InitSelect /\ [][NextSelect]_vars

\* the organizations in every suspension state, swept and checked by one instance
InitOrg ==
    /\ DestroyQuiet
    /\ now = CronInterval - TimeStep
    /\ lockStore = [k \in Jobs |-> FreeKey]
    /\ inst = [i \in Instances |-> IF i = 1 THEN IdleInstance
                                            ELSE [IdleInstance EXCEPT !.pc = "off"]]
    /\ job \in Jobs
    /\ fired = [i \in Instances |-> FALSE]
    /\ bodyRuns = {}
    /\ overran = FALSE
    /\ db \in {DefaultDb(organizations) : organizations \in [Orgs -> OrgRows]}
    /\ lastCheck = NoCheck

NextOrg ==
    \/ \E i \in Instances : SweepStep(i)
    \/ \E o \in Orgs : CheckSuspended(o)
    \/ \E i \in Instances, id \in Sandboxes \cup SnapshotRunners : Consume(i, id)
    \/ Tick

SpecOrg == InitOrg /\ [][NextOrg]_vars

\* requests through the legacy adapter's client
InitRetry ==
    /\ sbState = "STARTED"
    /\ runner \in LegacyHttpRunner
    /\ moduleRef = "ModuleRef"
    /\ slots = {}
    /\ DestroyIdle
    /\ SweepIdle
    /\ ClientIdle

NextRetry ==
    \/ \E method \in LegacyCalls : Send(method)
    \/ \E ok \in BOOLEAN, error \in TransportErrors : Attempt(ok, error)

SpecRetry == InitRetry /\ [][NextRetry]_vars

\* adapters handed out by the factory for READY runners, and calls on them
InitAdapter ==
    /\ sbState = "STARTED"
    /\ runner \in {r \in RunnerRecords : r.state = "READY"}
    /\ moduleRef = "ModuleRef"
    /\ slots = {}
    /\ DestroyIdle
    /\ SweepIdle
    /\ ClientIdle

NextAdapter ==
    \/ NewAdapter
    \/ \E state \in RunnerReportedStates, backupState \in ReportedBackupStates :
         AdapterInfo(state, backupState)
    \/ \E healthy \in BOOLEAN : HealthCheck(healthy)
    \/ \E log \in {"", "Step 1/2 : FROM base", "Step 1/2 : FROM base; Step 2/2 : RUN make"},
          failure \in {"NONE", "FAILED"} :
         AdapterGetSnapshotLogs(log, failure)
    \/ \E gpu \in {"0", "1"}, volumes \in {"none", "vol1:/data"} :
         AdapterForward("create",
            {<<f, "given">> : f \in LegacyForwarded("create")}
              \cup {<<"gpuQuota", gpu>>, <<"entrypoint", "none">>, <<"volumes", volumes>>})
    \/ \E force \in {"false", "true"} :
         AdapterForward("removeSnapshot", {<<"snapshot", "img1">>, <<"force", force>>})

SpecAdapter == InitAdapter /\ [][NextAdapter]_vars

\* one GetSnapshotLogs request served by the runner while the build goes on
NextLogs ==
    \/ \E ref \in SnapshotRefs, follow \in BOOLEAN, present \in BOOLEAN, sendMsg \in BOOLEAN :
         GetSnapshotLogs(ref, follow, present, sendMsg)
    \/ BuildWrites
    \/ \E ref \in SnapshotRefs \cup {CheckSnapshotRef(r) : r \in SnapshotRefs} :
         ImageAppears(ref)
    \/ ReaderSends
    \/ \E failed \in BOOLEAN : Poll(failed)
    \/ Complete
    \/ \E buffered \in BOOLEAN : ReaderAfterReturn(buffered)
    \/ \E ref \in SnapshotRefs, force \in BOOLEAN,
          err \in {"NONE", "NotFound", "Conflict", "Unavailable"} :
         RemoveSnapshot(ref, force, err)

SpecLogs == InitRetry /\ [][NextLogs]_vars

\* two create requests of two users, and suspensions of the rows they save
NextOrganizations ==
    \/ \E q \in CreateRequests, createdBy \in Users, personal \in BOOLEAN :
         CreateBegin(q, createdBy, personal)
    \/ \E q \in CreateRequests : CountPersonal(q) \/ CountCreated(q)
    \/ \E q \in CreateRequests, verified \in BOOLEAN, billing \in BOOLEAN :
         CreateSave(q, verified, billing)
    \/ \E k \in CreateRequests, reason \in {"undefined", "abuse"},
          until \in {NullDate, DateAt(TimeStep)} : Suspend(k, reason, until)
    \/ \E k \in CreateRequests : Unsuspend(k) \/ UnsuspendPersonal(k)

SpecOrganizations == InitRetry /\ [][NextOrganizations]_vars

\* the steps of the runner process itself and of its timer
RunnerProgress ==
    \/ \E case \in {"signal", "error"} : MainSelect(case)
    \/ TimerFires
    \/ ForceStop
    \/ Exit

NextRunner ==
    \/ Signal
    \/ \E s \in Servers, result \in {"nil", "error"} : ServerExits(s, result)
    \/ GracefulStopCompletes
    \/ \E s \in Servers, ok \in BOOLEAN : OtherShutdown(s, ok)
    \/ RunnerProgress

\* main and the timer are not held up forever; signals, server exits and the
\* completion of the servers' shutdowns may or may not come
SpecRunner == InitRetry /\ [][NextRunner]_vars /\ WF_vars(RunnerProgress)

(***************************************************************************)
(* Properties of SandboxDestroyAction.run                                  *)
(***************************************************************************)
Done(p) == inv[p].pc = "done"

\* the invocation saved a state different from the one the row had
Persisted(p) == inv[p].wrote # "NONE" /\ inv[p].wrote # inv[p].before

\* C1: a run on a sandbox that is not ARCHIVED, DESTROYED or DESTROYING whose
\* destroy call fails with not-found does not raise, persists DESTROYING and
\* returns SYNC_AGAIN.
C1_DestroyNotFoundIsSuccess ==
    \A p \in Invocations :
        (/\ Done(p)
         /\ inv[p].copy \notin {"ARCHIVED", "DESTROYED", "DESTROYING"}
         /\ inv[p].destroyAns = "NOT_FOUND")
        => (/\ inv[p].raised = "NONE"
            /\ inv[p].wrote = "DESTROYING"
            /\ inv[p].ret = SYNC_AGAIN)

\* C2: with a READY runner, a run whose info call fails with not-found does not
\* raise and advances the sandbox: DESTROYING to DESTROYED, any other
\* non-terminal state to DESTROYING, returning SYNC_AGAIN.
C2_InfoNotFoundAdvances ==
    \A p \in Invocations :
        (/\ Done(p)
         /\ runner.state = "READY"
         /\ inv[p].copy # "DESTROYED"
         /\ inv[p].infoAns = "NOT_FOUND")
        => (/\ inv[p].raised = "NONE"
            /\ inv[p].wrote = (IF inv[p].copy = "DESTROYING" THEN "DESTROYED" ELSE "DESTROYING")
            /\ inv[p].ret = SYNC_AGAIN)

\* C3: with the runner READY and the action invoked on every tick, the
\* persisted state eventually becomes DESTROYED, whatever the initial state and
\* whatever the runner reports.
C3_EventuallyDestroyed == <>(sbState = "DESTROYED")

\* C4: the second of two runs in sequence, the first having moved the sandbox
\* to DESTROYING and the runner answering not-found to the second, does not
\* raise and leaves the sandbox DESTROYED, entered exactly once.
C4_DestroyTwiceIdempotent ==
    (/\ Done(1)
     /\ inv[1].runNo = 2
     /\ inv[1].prevWrote = "DESTROYING"
     /\ inv[1].copy = "DESTROYING"
     /\ "NOT_FOUND" \in {inv[1].infoAns, inv[1].removeAns})
    => (/\ inv[1].raised = "NONE"
        /\ sbState = "DESTROYED"
        /\ destroyedCount = 1)

\* C5: once the persisted state is DESTROYED no step of any invocation changes
\* it, overlapping invocations included.
C5_DestroyedIsTerminal == [][sbState = "DESTROYED" => sbState' = "DESTROYED"]_vars

\* the error a failed adapter creation raises, or NONE
CreationError(p) ==
    IF inv[p].copy # "ARCHIVED" /\ runner.state = "READY"
      THEN FactoryCreate(runner).error ELSE "NONE"

\* C6: when adapter creation or an adapter call fails with an error other than
\* not-found, the run raises that failure and has saved nothing.
C6_OtherFailurePropagates ==
    \A p \in Invocations :
        Done(p) =>
          /\ (CreationError(p) # "NONE")
               => (inv[p].raised = CreationError(p) /\ inv[p].wrote = "NONE")
          /\ ("FAILED" \in {inv[p].infoAns, inv[p].destroyAns, inv[p].removeAns})
               => (inv[p].raised = "AdapterError" /\ inv[p].wrote = "NONE")

\* C7: a run on a DESTROYING sandbox saves DESTROYED only if info reported
\* DESTROYED or ERROR and removeDestroyed succeeded, or the runner answered
\* not-found.
C7_DestroyedOnlyWhenConfirmed ==
    \A p \in Invocations :
        (Done(p) /\ inv[p].copy = "DESTROYING" /\ inv[p].wrote = "DESTROYED")
        => \/ (inv[p].infoAns \in {"DESTROYED", "ERROR"} /\ inv[p].removeAns = "OK")
           \/ "NOT_FOUND" \in {inv[p].infoAns, inv[p].removeAns}

\* C8 as stated: every run that returns a signal returns SYNC_AGAIN exactly
\* when it persisted a state change and DONT_SYNC_AGAIN exactly when it
\* persisted none.
C8_SignalIffPersisted ==
    \A p \in Invocations :
        (Done(p) /\ inv[p].raised = "NONE")
                => /\ (inv[p].ret = SYNC_AGAIN <=> Persisted(p))
                   /\ (inv[p].ret = DONT_SYNC_AGAIN <=> ~Persisted(p))

\* C8 amended: a run that raises returns no signal and persists nothing; a run
\* on an ARCHIVED sandbox persists DESTROYED and returns DONT_SYNC_AGAIN; every
\* other run returns SYNC_AGAIN exactly when it persisted a state change and
\* DONT_SYNC_AGAIN exactly when it persisted none.
C8_SignalTable ==
    \A p \in Invocations :
        Done(p) =>
          IF inv[p].raised # "NONE"
            THEN inv[p].ret = "NONE" /\ ~Persisted(p)
          ELSE IF inv[p].copy = "ARCHIVED"
            THEN inv[p].ret = DONT_SYNC_AGAIN /\ Persisted(p) /\ inv[p].wrote = "DESTROYED"
          ELSE /\ (inv[p].ret = SYNC_AGAIN <=> Persisted(p))
               /\ (inv[p].ret = DONT_SYNC_AGAIN <=> ~Persisted(p))

\* a run that found the runner already reporting DESTROYED: no write, no re-run
C8_Witness ==
    /\ Done(1)
    /\ inv[1].copy = "STOPPED"
    /\ inv[1].infoAns = "DESTROYED"
    /\ inv[1].ret = DONT_SYNC_AGAIN
    /\ ~Persisted(1)

(***************************************************************************)
(* Properties of the lock and of the sweeps                                *)
(***************************************************************************)
\* C9: an acquire returns true exactly when the key is not live (never set,
\* released, or past its TTL); a true acquire leaves the key live and owned, a
\* false one leaves the store alone, so of two acquires on a free key exactly
\* one wins; a release leaves the key free; a lease never outlasts its TTL.
C9_LockMutualExclusion ==
    [][\A i \in Instances :
         /\ (inst[i].pc = "lock" /\ inst'[i].pc # "lock")
              => /\ (inst'[i].acquired = "TRUE") <=> ~KeyLive(lockStore, job, now)
                 /\ (inst'[i].acquired = "TRUE")
                      => /\ KeyLive(lockStore', job, now')
                         /\ lockStore'[job].setBy = i
                         /\ lockStore'[job].expires = now + LockTtl
                 /\ (inst'[i].acquired = "FALSE") => lockStore' = lockStore
         /\ (inst[i].pc = "release" /\ inst'[i].pc # "release")
              => ~KeyLive(lockStore', job, now')
         /\ lockStore'[job].held => now' < lockStore'[job].expires]_vars

\* an instance acquired the key after a peer's run died without releasing it
C9_Witness ==
    \E i, j \in Instances :
        /\ i # j
        /\ inst[j].pc = "idle" /\ inst[j].acquired = "TRUE" /\ inst[j].raised # "NONE"
        /\ inst[i].pc = "findSuspended" /\ inst[i].acquired = "TRUE"
        /\ lockStore[job].setBy = i

\* C10 as stated: at most one instance executes the sweep body in an interval.
C10_OneBodyRunPerInterval == Cardinality(bodyRuns) <= 1

\* C10 amended: an instance executes the sweep body only when its acquire found
\* no live lease on the key; a trigger that finds a live lease is skipped whole
\* (no query, no event, no release).
C10_SkippedWhileLeaseLive ==
    \A i \in Instances :
        /\ InBody(i) => (inst[i].acquired = "TRUE" /\ ~inst[i].sawLive)
        /\ inst[i].sawLive
             => /\ inst[i].acquired = "FALSE"
                /\ inst[i].pc = "idle"
                /\ ~inst[i].found /\ ~inst[i].queried
                /\ inst[i].emitted = <<>> /\ ~inst[i].released

\* a cron trigger skipped while the start-up run of a peer holds the lease
C10_Witness ==
    \E i, j \in Instances :
        /\ i # j
        /\ inst[i].trigger = "cron" /\ inst[i].sawLive /\ inst[i].pc = "idle"
        /\ inst[j].trigger = "onModuleInit" /\ inst[j].pc = "query"
        /\ lockStore[job].setBy = j

\* the run of instance i ended after it had acquired its lock
EndedHoldingRun(i) == inst[i].pc = "idle" /\ inst[i].acquired = "TRUE"

\* C11: a sweep run that acquired its lock has deleted the lock key by the
\* time it ends, on every exit path: normal completion, the no-organizations
\* early return, and a failure of the organization query or of the
\* sandbox / snapshot-runner query.
C11_LockReleasedOnEveryExit ==
    \A i \in Instances : EndedHoldingRun(i) => inst[i].released

\* suspendedAt lies strictly between 7 days and 24 hours before instant t
InGraceWindow(org, t) ==
    /\ ~org.suspendedAt.isNull
    /\ org.suspendedAt.t < SuspendedBefore(t)
    /\ org.suspendedAt.t > SuspendedAfter(t)

\* the organization an emitted event's sandbox or snapshot runner belongs to
EventOrganization(id) ==
    IF job = StopSweep
      THEN db.sandboxes[id].organizationId
      ELSE db.snapshots[db.snapshotRunners[id].snapshotRef].organizationId

\* C12: both sweeps select only organizations whose suspendedAt lies strictly
\* between 7 days ago and 24 hours ago, and no stop or removal event is emitted
\* for a sandbox or runner of an organization outside that window.
C12_GraceWindow ==
    \A i \in Instances :
        inst[i].found =>
          /\ \A o \in inst[i].orgs : InGraceWindow(db.organizations[o], inst[i].foundAt)
          /\ \A id \in Range(inst[i].emitted) :
                InGraceWindow(db.organizations[EventOrganization(id)], inst[i].foundAt)

\* the second query of the run of instance i returned
QueryReturned(i) == inst[i].queried /\ inst[i].raised = "NONE"

\* the sandboxes a stop sweep that selected orgIds has to stop
StopTargets(orgIds) ==
    {s \in Sandboxes :
        /\ db.sandboxes[s].organizationId \in orgIds
        /\ db.sandboxes[s].desiredState = "STARTED"
        /\ db.sandboxes[s].state \notin {"ERROR", "BUILD_FAILED"}}

\* C13: a stop sweep that holds the lock emits exactly one stop event, carrying
\* the sandbox id, for each sandbox of a selected organization with
\* desiredState STARTED and state other than ERROR and BUILD_FAILED, and no
\* event for any other sandbox.
C13_StopEventPerMatchingSandbox ==
    \A i \in Instances :
        job = StopSweep =>
          IF QueryReturned(i)
            THEN /\ Range(inst[i].emitted) = StopTargets(inst[i].orgs)
                 /\ Len(inst[i].emitted) = Cardinality(StopTargets(inst[i].orgs))
            ELSE inst[i].emitted = <<>>

\* a stop event for one sandbox while the other sandbox of the same selected
\* organization is left alone because it is in ERROR
C13_Witness ==
    /\ job = StopSweep
    /\ QueryReturned(1)
    /\ inst[1].emitted = <<"s1">>
    /\ db.sandboxes["s2"].organizationId \in inst[1].orgs
    /\ db.sandboxes["s2"].desiredState = "STARTED"
    /\ db.sandboxes["s2"].state = "ERROR"

\* C14: when no organization matches, a sweep run that acquired the lock issues
\* no sandbox / snapshot-runner query, emits no event, and deletes the lock key
\* before it returns.
C14_EmptySetGuard ==
    \A i \in Instances :
        (inst[i].found /\ inst[i].orgs = {})
        => /\ ~inst[i].queried
           /\ inst[i].emitted = <<>>
           /\ inst[i].raised = "NONE"
           /\ inst[i].pc \in {"release", "idle"}
           /\ inst[i].pc = "idle" => inst[i].released

\* a run that found no organization and returned after deleting the key
C14_Witness ==
    \E i \in Instances :
        /\ inst[i].found /\ inst[i].orgs = {}
        /\ inst[i].pc = "idle" /\ inst[i].released
        /\ ~lockStore[job].held

\* C15: a sweep whose acquire fails returns without error and changes nothing:
\* no organization query, no sandbox / runner query, no event, and the lock key
\* held by the peer is neither deleted nor re-armed.
C15_FailedAcquireChangesNothing ==
    [][\A i \in Instances :
         (inst[i].pc = "lock" /\ inst'[i].acquired = "FALSE")
         => /\ lockStore' = lockStore
            /\ db' = db
            /\ inst'[i] = [IdleInstance EXCEPT !.trigger = inst[i].trigger,
                                               !.acquired = "FALSE", !.sawLive = TRUE]]_vars

\* an instance returned from a failed acquire while its peer, in the body of
\* the same sweep, still holds the key
C15_Witness ==
    \E i, j \in Instances :
        /\ i # j
        /\ inst[i].pc = "idle" /\ inst[i].acquired = "FALSE" /\ inst[i].raised = "NONE"
        /\ inst[j].pc = "release" /\ inst[j].queried
        /\ KeyLive(lockStore, job, now) /\ lockStore[job].setBy = j

CalledFactory(p) ==
    /\ inv[p].pc \notin {"idle", "entered"}
    /\ inv[p].copy # "ARCHIVED"
    /\ runner.state = "READY"

\* C17: create yields the legacy adapter for version "0" and the current
\* adapter for version "1"; for every other version it fails with the
\* unsupported-version error, creating no adapter and invoking no init.
C17_VersionDispatch ==
    \A p \in Invocations :
        CalledFactory(p) =>
          IF runner.version = "0" THEN inv[p].created = "RunnerAdapterLegacy"
          ELSE IF runner.version = "1" THEN inv[p].created = "RunnerAdapterV1"
          ELSE /\ inv[p].raised = "UnsupportedVersion"
               /\ inv[p].created = "NONE"
               /\ inv[p].init = "NOT_CALLED"

\* C18: create hands an adapter to its caller only after that adapter's init
\* completed successfully; when init fails (the current adapter given an apiUrl
\* whose scheme is neither grpc nor grpcs) create fails with init's error and
\* the caller receives no adapter.
C18_AdapterOnlyAfterInit ==
    \A p \in Invocations :
        /\ inv[p].adapter # "NONE"
             => (inv[p].init = "OK" /\ inv[p].created = inv[p].adapter)
        /\ (CalledFactory(p) /\ inv[p].created = "RunnerAdapterV1"
              /\ runner.scheme \notin {"grpc", "grpcs"})
             => inv[p].init = "InvalidApiUrl"
        /\ inv[p].init \notin {"OK", "NOT_CALLED"}
             => /\ inv[p].adapter = "NONE"
                /\ Done(p)
                /\ inv[p].raised = inv[p].init

\* the current adapter was instantiated for an http apiUrl and the run got no
\* adapter, only init's error
C18_Witness ==
    /\ Done(1)
    /\ runner.version = "1" /\ runner.scheme = "http"
    /\ inv[1].created = "RunnerAdapterV1"
    /\ inv[1].adapter = "NONE"
    /\ inv[1].raised = "InvalidApiUrl"

\* C19 as stated: a call that fails with a connection reset on every attempt is
\* attempted at most 3 times in total; a failure that is not a connection reset
\* is never retried.
C19_AtMostThreeAttempts ==
    /\ req.allReset => req.attempts <= 3
    /\ req.retriedOn \subseteq {"reset"}

\* C19 amended: a call that fails with a connection reset on every attempt is
\* attempted exactly Retries + 1 times (the first attempt and 3 retries) and
\* then fails to the caller; a failure that is not a connection reset is never
\* retried and fails to the caller at once.
C19_FirstAttemptPlusRetries ==
    /\ req.attempts <= Retries + 1
    /\ req.retryCount <= Retries
    /\ req.retriedOn \subseteq {"reset"}
    /\ (req.pc = "done" /\ req.allReset)
         => (req.attempts = Retries + 1 /\ req.result = "Error" /\ req.raised = "Error")
    /\ (req.pc = "sending" /\ req.attempts > 0) => req.last.kind = "reset"
    /\ (req.pc = "done" /\ req.result = "Error" /\ req.last.kind # "reset")
         => req.raised = "Error"

\* a call whose every attempt was reset, given up after the fourth
C19_Witness ==
    /\ req.pc = "done"
    /\ req.allReset
    /\ req.attempts = Retries + 1
    /\ req.result = "Error"

\* the snapshot runners a removal sweep that selected orgIds has to remove
RemovalTargets(orgIds) ==
    {r \in SnapshotRunners :
        /\ db.snapshotRunners[r].snapshotRef \in Snapshots
        /\ ~db.snapshots[db.snapshotRunners[r].snapshotRef].general
        /\ db.snapshots[db.snapshotRunners[r].snapshotRef].organizationId \in orgIds}

\* C20: a removal sweep that holds the lock emits exactly one removal event,
\* carrying the snapshot-runner id, for each snapshot runner that serves a
\* non-general snapshot of a selected organization, in ascending creation
\* order, and none for runners of general snapshots or of other organizations.
C20_RemovalEventPerRunnerInOrder ==
    \A i \in Instances :
        job = RemoveSweep =>
          IF QueryReturned(i)
            THEN /\ Range(inst[i].emitted) = RemovalTargets(inst[i].orgs)
                 /\ Len(inst[i].emitted) = Cardinality(RemovalTargets(inst[i].orgs))
                 /\ \A a, b \in 1..Len(inst[i].emitted) :
                       a < b => db.snapshotRunners[inst[i].emitted[a]].createdAt
                                  <= db.snapshotRunners[inst[i].emitted[b]].createdAt
            ELSE inst[i].emitted = <<>>

\* two removal events, the runner created first going first
C20_Witness ==
    /\ job = RemoveSweep
    /\ QueryReturned(1)
    /\ inst[1].emitted = <<"sr2", "sr1">>
    /\ db.snapshotRunners["sr2"].createdAt < db.snapshotRunners["sr1"].createdAt

(***************************************************************************)
(* Properties of the adapters' methods and of the runner's log stream      *)
(***************************************************************************)
\* C21: the legacy and the current adapter map runner-reported states alike:
\* each named sandbox state to the canonical state of the same name and an
\* unrecognized one to UNKNOWN; each named backup state to the canonical value
\* of the same name, a failed backup to ERROR, an unrecognized one to NONE.
C21_AdaptersMapStatesAlike ==
    call.method = "info" =>
      /\ call.outState = call.state
      /\ call.outBackupState =
           (CASE call.backupState = "FAILED" -> "ERROR"
              [] call.backupState = "UNSPECIFIED" -> "NONE"
              [] OTHER -> call.backupState)
      /\ LegacyConvertSandboxState(call.state) = V1ConvertSandboxState(call.state)
      /\ LegacyConvertBackupState(call.backupState) = V1ConvertBackupState(call.backupState)

\* C22: GetSnapshotLogs with follow = true sends its completion message, as
\* the last message of the stream, only after a SnapshotExists poll for the
\* derived check-reference answered true.
C22_CompletionOnlyAfterSnapshotExists ==
    (logs.follow /\ logs.pc = "returned" /\ logs.status = "OK") =>
      /\ logs.stream[Len(logs.stream)] = Completed
      /\ logs.polled = {CheckSnapshotRef(logs.ref)}
      /\ logs.sawExists

\* C23: getSnapshotLogs(ref, false) that does not fail returns the full
\* build-log text the runner holds for ref, through either adapter.
C23_SnapshotLogsReturned ==
    (call.method = "getSnapshotLogs" /\ call.raised = "NONE") => call.outLog = call.log

(***************************************************************************)
(* Properties of SandboxDestroyAction.run: shortcuts and call order        *)
(***************************************************************************)
NoAdapterCall(p) ==
    /\ inv[p].infoAns = "NOT_CALLED"
    /\ inv[p].destroyAns = "NOT_CALLED"
    /\ inv[p].removeAns = "NOT_CALLED"

\* C24: a run on an ARCHIVED sandbox persists DESTROYED and returns
\* DONT_SYNC_AGAIN without looking up the runner, creating an adapter or
\* issuing an adapter call, whatever the runner's readiness and version.
C24_ArchivedShortcut ==
    \A p \in Invocations :
        (Done(p) /\ inv[p].copy = "ARCHIVED") =>
          /\ inv[p].wrote = "DESTROYED"
          /\ inv[p].ret = DONT_SYNC_AGAIN
          /\ inv[p].raised = "NONE"
          /\ ~inv[p].lookedUp
          /\ inv[p].created = "NONE" /\ inv[p].init = "NOT_CALLED"
          /\ NoAdapterCall(p)

\* an ARCHIVED sandbox of a runner that is not READY and of unsupported version
C24_Witness ==
    /\ Done(1) /\ inv[1].copy = "ARCHIVED"
    /\ runner.state = "UNRESPONSIVE" /\ runner.version = "2"
    /\ sbState = "DESTROYED" /\ inv[1].before = "ARCHIVED"
    /\ inv[1].ret = DONT_SYNC_AGAIN

\* C25: a run on a DESTROYED sandbox makes no adapter call, writes nothing,
\* returns DONT_SYNC_AGAIN and does not fail, whatever the runner's readiness
\* and declared protocol version.
C25_DestroyedIsNoOp ==
    \A p \in Invocations :
        (Done(p) /\ inv[p].copy = "DESTROYED") =>
          /\ NoAdapterCall(p)
          /\ inv[p].wrote = "NONE"
          /\ inv[p].ret = DONT_SYNC_AGAIN
          /\ inv[p].raised = "NONE"

\* C26: with a runner that is not READY, a run on a sandbox that is not
\* ARCHIVED creates no adapter, issues no call, writes nothing, raises nothing
\* and returns DONT_SYNC_AGAIN.
C26_RunnerNotReady ==
    \A p \in Invocations :
        (Done(p) /\ inv[p].copy # "ARCHIVED" /\ runner.state # "READY") =>
          /\ inv[p].lookedUp
          /\ inv[p].created = "NONE" /\ inv[p].init = "NOT_CALLED"
          /\ NoAdapterCall(p)
          /\ inv[p].wrote = "NONE"
          /\ inv[p].raised = "NONE"
          /\ inv[p].ret = DONT_SYNC_AGAIN

\* a STARTED sandbox of an unresponsive runner of unsupported version
C26_Witness ==
    /\ Done(1) /\ inv[1].copy = "STARTED"
    /\ runner.state = "UNRESPONSIVE" /\ runner.version = "2"
    /\ sbState = "STARTED"
    /\ inv[1].ret = DONT_SYNC_AGAIN

\* C27: within one invocation a mutating call (destroy or removeDestroyed) is
\* issued only after info, at most one of the two is issued, and the state
\* write comes after it: none is pending or made once the write is done.
C27_InfoThenOneMutationThenWrite ==
    \A p \in Invocations :
        /\ (inv[p].pc \in {"destroy", "removeDestroyed"}
              \/ inv[p].destroyAns # "NOT_CALLED" \/ inv[p].removeAns # "NOT_CALLED")
             => inv[p].infoAns \in RunnerReportedStates
        /\ inv[p].destroyAns = "NOT_CALLED" \/ inv[p].removeAns = "NOT_CALLED"
        /\ inv[p].pc = "destroy" => inv[p].removeAns = "NOT_CALLED"
        /\ inv[p].pc = "removeDestroyed" => inv[p].destroyAns = "NOT_CALLED"
        /\ inv[p].pc \in {"info", "destroy", "removeDestroyed", "update"}
             => inv[p].wrote = "NONE"

\* info, then destroy, then the write of DESTROYING
C27_Witness ==
    /\ Done(1)
    /\ inv[1].infoAns = "STARTED" /\ inv[1].destroyAns = "OK"
    /\ inv[1].removeAns = "NOT_CALLED"
    /\ inv[1].wrote = "DESTROYING"

(***************************************************************************)
(* Properties of the sweeps: overlap, and the release of the lock          *)
(***************************************************************************)
\* C28: two instances are inside the body of the same sweep at once only if a
\* run outlived the 60-second lifetime of the key it set: while every run
\* ends within that lifetime, the bodies never overlap.
C28_BodiesOverlapOnlyAfterOverrun ==
    (\E i, j \in Instances : i # j /\ InBody(i) /\ InBody(j)) => overran

\* a run outlived its key, the key expired, and a second instance entered
C28_Witness ==
    /\ InBody(1) /\ InBody(2)
    /\ overran
    /\ lockStore[job].held /\ lockStore[job].setBy = 2

\* C29: a sweep deletes its lock key only after an event was dispatched for
\* every item its query selected, and the deletion waits for no consumer: it
\* leaves the consumers that are running as they are.
C29_ReleaseAfterDispatchNotConsumers ==
    [][\A i \in Instances :
         (inst[i].pc = "release" /\ inst'[i].pc # "release") =>
           /\ inst[i].queried =>
                LET targets == IF job = StopSweep THEN StopTargets(inst[i].orgs)
                                                  ELSE RemovalTargets(inst[i].orgs)
                IN /\ Range(inst[i].emitted) = targets
                   /\ Len(inst[i].emitted) = Cardinality(targets)
           /\ ~lockStore'[job].held
           /\ inst'[i].running = inst[i].running]_vars

\* the key is free while the consumers of both events are still running
C29_Witness ==
    /\ inst[1].released
    /\ ~lockStore[job].held
    /\ Len(inst[1].emitted) = 2
    /\ inst[1].running = Range(inst[1].emitted)

(***************************************************************************)
(* Properties of healthCheck                                               *)
(***************************************************************************)
\* C30: on an adapter returned by create, for version "0" as for version "1",
\* healthCheck reads a client handle that init has set, completes without
\* error when the runner reports healthy and fails with the not-healthy error
\* otherwise.
C30_HealthCheckUsable ==
    call.method = "healthCheck" =>
      /\ HealthHandle(call.class) \in call.handles
      /\ call.raised = IF call.healthy THEN "NONE" ELSE "Runner is not healthy"

(***************************************************************************)
(* Properties of the adapters' requests, of RemoveSnapshot, of a sandbox   *)
(* without runner, of the release, of the log reader and organizations     *)
(***************************************************************************)
\* C31: both adapters forward the fields they are given: a create request
\* carries the gpu quota, the entrypoint and the volume mounts with the other
\* sandbox fields, a removeSnapshot request carries the force flag, whichever
\* adapter class sends it.
C31_AdaptersForwardAlike ==
    call.method \in {"create", "removeSnapshot"} => call.sent = call.args

\* C32: RemoveSnapshot answers success when the image was removed and when
\* the engine does not have it, so a second removal of the same snapshot
\* succeeds like the first; every other engine error is answered as an error.
C32_RemoveSnapshotIdempotent ==
    \A k \in 1..Len(logs.removes) :
        LET e == logs.removes[k] IN
        /\ e.err = "NONE" => e.result = "removed"
        /\ e.err = "NotFound" => e.result = "already removed or not found"
        /\ (~e.had /\ e.err # "Unavailable") => e.result # "error"
        /\ e.err \in {"Conflict", "Unavailable"} <=> e.result = "error"

\* the same snapshot removed twice: removed the first time, absent the second
C32_Witness ==
    /\ Len(logs.removes) = 2
    /\ logs.removes[1].ref = logs.removes[2].ref
    /\ logs.removes[1].had /\ logs.removes[1].result = "removed"
    /\ ~logs.removes[2].had
    /\ logs.removes[2].result = "already removed or not found"

\* C33: a run on a sandbox that is not ARCHIVED and has no runner (runnerId
\* null, or no runner record of that id) does not raise.
C33_NoRunnerDoesNotRaise ==
    \A p \in Invocations :
        (Done(p) /\ inv[p].copy # "ARCHIVED" /\ runner = NoRunner) =>
          inv[p].raised = "NONE"

\* a run of instance i deletes the lock key in this step
Releases(i) == ~inst[i].released /\ inst'[i].released

\* C34 as stated: whenever a run deletes the lock key, the key present at that
\* moment is the one that same run set.
C34_ReleaseDeletesOwnLease ==
    [][\A i \in Instances :
         (Releases(i) /\ lockStore[job].held) => lockStore[job].setBy = i]_vars

\* C34: a release deletes the key whoever set it; the key present is the one
\* the releasing run set unless a run outlived the 60-second lifetime of its
\* key, and only then does a release delete the lease of another instance.
C34_ForeignLeaseDeletedOnlyAfterOverrun ==
    [][\A i \in Instances :
         Releases(i) =>
           /\ ~lockStore'[job].held
           /\ (lockStore[job].held /\ lockStore[job].setBy # i) => overran]_vars

\* instance 1 outlived its key and released; instance 2, which acquired after
\* the expiry and whose key would still be live, is in its body without a key
C34_Witness ==
    /\ overran
    /\ inst[1].released
    /\ InBody(2) /\ inst[2].acquired = "TRUE" /\ ~inst[2].released
    /\ ~lockStore[job].held
    /\ now < LockTtl + LockTtl

C36_OnePersonalOrganization ==
    /\ \A u \in Users : Count(orgSvc.rows, u, TRUE) <= 1
    /\ \A q \in CreateRequests :
         orgSvc.reqs[q].raised = "Personal organization already exists"
           => ~orgSvc.reqs[q].saved

\* C37: in every stored organization, suspended = false goes with suspendedAt,
\* suspendedUntil and suspensionReason all null, and suspended = true with a
\* suspendedAt that is set.
C37_SuspensionFieldsConsistent ==
    \A k \in 1..Len(orgSvc.rows) :
        LET o == orgSvc.rows[k] IN
        /\ ~o.suspended => /\ o.suspendedAt = NullDate
                           /\ o.suspendedUntil = NullDate
                           /\ o.suspensionReason = "null"
        /\ o.suspended => ~o.suspendedAt.isNull

\* one organization whose suspension was lifted, another suspended again
\* after a lifting, with a reason and an end date
C37_Witness ==
    /\ Len(orgSvc.rows) = 2
    /\ orgSvc.rows[1].lifted /\ ~orgSvc.rows[1].suspended
    /\ orgSvc.rows[2].lifted /\ orgSvc.rows[2].suspended
    /\ orgSvc.rows[2].suspensionReason = "abuse"
    /\ ~orgSvc.rows[2].suspendedUntil.isNull

(***************************************************************************)
(* Properties of the runner's shutdown                                     *)
(***************************************************************************)
\* C38: Server.Shutdown returns nil only after the graceful stop completed
\* with the context not done, returns the context's error only after the
\* context was done and the server was force-stopped, is never left in its
\* select once the context is done, and a Shutdown in its select returns
\* unless the process ends first.
C38_ShutdownReturns ==
    /\ [](/\ proc.grpcRet = "nil" => (proc.graceful /\ ~proc.forced)
          /\ proc.grpcRet = "ctxErr" => (proc.timer /\ proc.forced /\ ~proc.graceful)
          /\ proc.timer => proc.shut # "grpc"
          /\ proc.shut \in {"proxy", "metrics", "done"} => proc.grpcRet # "NONE")
    /\ proc.shut \in {"grpc", "grpcStop"}
         ~> (proc.grpcRet # "NONE" \/ proc.exit # "NONE")

\* the context ended during the graceful stop: the server was force-stopped,
\* Shutdown returned the context's error and the goroutine went on
C38_Witness ==
    /\ proc.grpcRet = "ctxErr" /\ proc.forced /\ proc.timer
    /\ proc.shut = "proxy"
    /\ proc.exit = "NONE"

\* C39: once a signal arrived or a server exited the process ends; the
\* servers are shut down in the order gRPC, proxy, metrics; the exit code is 1
\* exactly when the timeout expired before the shutdown was complete, and 0
\* only after all three were shut down.
C39_ProcessShutdown ==
    /\ [](/\ \A k \in 1..Len(proc.attempted) :
               proc.attempted[k] = <<"grpc", "proxy", "metrics">>[k]
          /\ proc.exit # "NONE" => (proc.exit = "1" <=> proc.late)
          /\ proc.exit = "0" => /\ proc.shut = "done"
                                /\ proc.attempted = <<"grpc", "proxy", "metrics">>)
    /\ (proc.signalled \/ \E s \in Servers : proc.servers[s] # "running")
         ~> proc.exit # "NONE"

\* the metrics server failed, the gRPC server stopped gracefully, the proxy's
\* shutdown outlasted the timeout, and the process exited with code 1
C39_Witness ==
    /\ proc.exit = "1"
    /\ proc.trigger = "error" /\ proc.servers["metrics"] = "error"
    /\ proc.grpcRet = "nil"
    /\ proc.attempted = <<"grpc", "proxy">>

=============================================================================
